---- MODULE Spec2Model ----
(***************************************************************************)
(* State-machine model of gmap_retrieval: the street-view fetch task       *)
(* (street_view.py, get_street_view_image) with its candidate sampler and  *)
(* availability probe, and the satellite fetch (satellite.py,              *)
(* get_satellite_image) with its coverage journal.                         *)
(*                                                                         *)
(* The file system is the only persistent state: per-ID sub-directories    *)
(* holding image<j>.png and loc.csv, and the satellite directory holding   *)
(* <ID>.png and image_coverage.csv.  Runs of the two entry points follow   *)
(* one another; a run may be killed at any step.                           *)
(***************************************************************************)
EXTENDS Integers, Sequences, FiniteSets, TLC

\* ---------------------------------------------------------------- bounds
NumTypes == 3      \* len(place_types) get_nearby_places is called with
MaxPages == 2      \* continuation pages the service serves for one search
MaxFailedFetches == 2   \* next-page fetches of one place type that are not OK
NumIDs == 2        \* longest IDs / latitude_longitude input a run is called with
MaxImages == 2     \* largest n_images a run is called with
MaxLimit == 1      \* largest limit (trial budget factor) a run is called with
MaxJobs == 2       \* largest n_jobs a run is called with
MaxRuns == 2       \* runs of the entry points in one behaviour
MaxIOErrors == 1   \* transport failures (IOError) injected per run
TargetN == 3       \* n_images of the run against the every-second-candidate service
MaxLocs == 3       \* longest loc list is_gsv_available is called with
MaxLats == 2       \* longest latitudes list find_zoom_level is called with
MaxCalls == 3      \* calls of sign_url in one behaviour
MaxUrls == 2       \* longest Series of URLs sign_url is called with
MaxPlaces == 2     \* longest place_id list get_reviews is called with
MaxTiers == 3      \* most price ranges of a pricing table calculate_cost is given
MaxLoc == 2        \* largest n_loc calculate_cost is called with
MaxTriples == 2    \* longest lists get_lat_lon is called with
MaxLat == 1        \* largest |latitude|, in the steps described at Latitudes

\* ------------------------------------------------------- inputs and values
\* IDs is a pandas Series with the default index; position i holds ID i.
\* A run is called with the first len_IDs of them.
IDs == [i \in 1..NumIDs |-> i]

Positions == 1..NumIDs

\* status field of a street-view metadata response
Status == {"OK", "ZERO_RESULTS"}

\* the statuses a call of is_gsv_available is answered with
ProbeStatus == Status \cup {"NOT_FOUND"}

\* missing value of a DataFrame cell
NaN == 0

\* A candidate location is a fresh random draw.  Only the candidates the
\* probe reports available are ever stored, so a location is identified by
\* the generation round that drew it and its rank among the candidates of
\* that round whose status came back "OK"; every other candidate of the
\* round has rank 0.
Tok(round, rank) == round * 100 + rank

\* actual_horizontal[i]: the coverage find_zoom_level returns for the
\* latitude of position i, identified here by the position it was computed for.
actual_horizontal(i) == 1000 + i

\* ------------------------------------------------------------ sequences
IsPrefix(s, t) == /\ Len(s) <= Len(t)
                  /\ \A n \in 1..Len(s) : s[n] = t[n]

Range(s) == {s[n] : n \in 1..Len(s)}

RECURSIVE SortedSeq(_)
SortedSeq(S) ==
    IF S = {} THEN << >>
    ELSE LET m == CHOOSE x \in S : \A y \in S : x <= y
         IN  <<m>> \o SortedSeq(S \ {m})

\* lat_lon[available]: boolean-mask selection, order preserved
RECURSIVE MaskSelect(_, _)
MaskSelect(s, mask) ==
    IF s = << >> THEN << >>
    ELSE IF Head(mask) THEN <<Head(s)>> \o MaskSelect(Tail(s), Tail(mask))
                       ELSE MaskSelect(Tail(s), Tail(mask))

\* ------------------------------------------------------ is_gsv_available
\* Number of candidates whose status is requested: the loop returns right
\* after the candidate at which count == limit.
RECURSIVE ProbeScan(_, _, _, _)
ProbeScan(st, lim, i, count) ==
    IF i > Len(st) THEN Len(st)
    ELSE LET c == IF st[i] = "OK" THEN count + 1 ELSE count
         IN  IF c = lim THEN i ELSE ProbeScan(st, lim, i + 1, c)

n_probed(st, lim) == ProbeScan(st, lim, 1, 0)

\* availability list: [False]*len(urls), set to (status == 'OK') for every
\* probed candidate
is_gsv_available(st, lim) ==
    [i \in 1..Len(st) |-> i <= n_probed(st, lim) /\ st[i] = "OK"]

\* --------------------------------------------------------------- sampler
\* lat_lon = get_lat_lon(loc, distance, direction): the candidates of a
\* round, named as Tok describes from the statuses st the probe will get.
lat_lon(round, st, lim) ==
    [c \in 1..Len(st) |->
        IF c <= n_probed(st, lim) /\ st[c] = "OK"
        THEN Tok(round, Cardinality({d \in 1..c : st[d] = "OK"}))
        ELSE Tok(round, 0)]

\* int(n_images * candidate_multiple), candidate_multiple = 1.5
n_candidates(n) == (3 * n) \div 2

\* loc_valid.append(loc_valid_new, ignore_index) inside try / except
\* NameError: in the first round loc_valid is unbound, in later rounds the
\* name ignore_index is undefined; both raise NameError and the handler
\* assigns loc_valid = loc_valid_new.  (With a pandas that has no
\* Series.append the attribute lookup fails first, with an AttributeError
\* the handler does not catch: GsvRound.)
Accumulate(old, new) == new

\* mutant: the slice is forgotten
Truncate_Keep(s, n) == s

\* loc_valid[:n_needed_images] (Python slice: a negative bound counts from
\* the end)
Truncate(s, n) ==
    LET m == IF n >= 0 THEN (IF n < Len(s) THEN n ELSE Len(s))
             ELSE (IF Len(s) + n > 0 THEN Len(s) + n ELSE 0)
    IN  SubSeq(s, 1, m)

\* mutant: the resume check never fires
IsComplete_Never(existing, n) == FALSE

\* n_existing_images == n_images: the task returns at once
IsComplete(existing, n) == existing = n

\* mutant: the pre-existing images are not subtracted
Deficit_Full(n, existing) == n

\* n_needed_images = n_images - n_existing_images
Deficit(n, existing) == n - existing

\* --------------------------------------------------------- file naming
\* mutant: the name is taken without probing for an existing file
FirstUnused_NoProbe(f, j) == j

\* while os.path.exists(image{j}.png): j += 1
RECURSIVE FirstUnused(_, _)
FirstUnused(f, j) == IF j \in DOMAIN f THEN FirstUnused(f, j + 1) ELSE j

\* with open(file_name, "wb") as f: f.write(image).  Every download brings
\* fresh bytes: the content of a file is identified by the number of times
\* the file has been written.
WriteFile(f, j) ==
    [m \in (DOMAIN f) \cup {j} |-> IF m # j THEN f[m]
                                   ELSE IF j \in DOMAIN f THEN f[j] + 1 ELSE 1]

\* ------------------------------------------------------------- journals
GsvHeader == [hdr |-> TRUE, name |-> NaN, location |-> NaN]
GsvRow(n, l) == [hdr |-> FALSE, name |-> n, location |-> l]

\* mutant: the name is recorded after j has been advanced
loc_data_NextName(names, locs) == [n \in 1..Len(locs) |-> GsvRow(names[n] + 1, locs[n])]

\* pd.DataFrame({'name': new_file_names, 'location': loc_valid})
loc_data(names, locs) == [n \in 1..Len(locs) |-> GsvRow(names[n], locs[n])]

SatHeader == [hdr |-> TRUE, id |-> NaN, actual_coverage |-> NaN]
SatRow(i, c) == [hdr |-> FALSE, id |-> i, actual_coverage |-> c]

\* open(path, "a"); to_csv(header=False)  /  open(path, "w"); to_csv()
AppendMode(content, rows) == content \o rows
WriteMode(header, rows) == <<header>> \o rows

\* mutant: loc.csv is always opened with mode "w"
GsvJournalWrite_Truncate(exists, content, rows) == WriteMode(GsvHeader, rows)

\* loc.csv: appended to if os.path.exists(csv_path), else created
GsvJournalWrite(exists, content, rows) ==
    IF exists THEN AppendMode(content, rows) ELSE WriteMode(GsvHeader, rows)

\* image_coverage.csv: appended to if csv_exist, which records whether
\* directory_name existed when the run started, else created
SatJournalWrite(dir_existed, content, rows) ==
    IF dir_existed THEN AppendMode(content, rows) ELSE WriteMode(SatHeader, rows)

\* positions with skip_id == 0, ascending, of a call with m IDs
Kept(skip, m) == SortedSeq({i \in 1..m : skip[i] = 0})

\* pd.DataFrame({'id': IDs[skip_id==0], 'actual_coverage': actual_coverage}):
\* IDs[skip_id==0] keeps the original index labels, actual_coverage is
\* rebuilt with a fresh 0..m-1 index; the constructor aligns the two
\* columns on the union of the labels and fills the gaps with NaN.
new_data(skip, len) ==
    LET kept == Kept(skip, len)
        m == Len(kept)
        labels == SortedSeq(Range(kept) \cup (1..m))
    IN  [n \in 1..Len(labels) |->
            SatRow(IF labels[n] \in Range(kept) THEN IDs[labels[n]] ELSE NaN,
                   IF labels[n] <= m THEN actual_horizontal(kept[labels[n]]) ELSE NaN)]

\* ------------------------------------------------------------------ state
VARIABLES
    phase,              \* "idle" | "gsv" | "sat": the entry point that is running
    nRuns,              \* runs started so far
    len_IDs,            \* len(IDs) of the running entry point
    n_images,           \* argument of the running get_street_view_image
    limit,              \* argument of the running get_street_view_image
    n_jobs,             \* argument of the running entry point
    hasSeriesAppend,    \* the installed pandas still has Series.append (< 2.0)
    io_failures,        \* IOErrors raised by urlopen in the running run
    \* street-view file system, per ID
    sub_dir,            \* the sub-directory exists
    files,              \* j |-> content (write generation) of image<j>.png, if present
    csv_exists,         \* loc.csv exists
    loc_csv,            \* lines of loc.csv
    \* locals of collect_gsv_images_for_each_id, per position
    pc,
    n_existing_images,
    n_needed_images,
    trial_count,        \* twice the float trial_count of the code
    rounds,             \* completed iterations of the sampler's while loop
    loc_valid,
    k,                  \* urls already downloaded by the for loop
    j,
    new_file_names,
    \* history of the task while it runs, per position
    accepted,           \* concatenation of loc_valid_new over the rounds
    okLocs,             \* candidates whose metadata status was "OK"
    exit,               \* how the sampler was left
    probed,             \* metadata requests answered
    drawn,              \* candidates drawn in the latest round
    probe_limit,        \* limit passed to is_gsv_available in the latest round
    requested,          \* image requests answered
    pre_files,          \* files at the start of the run
    pre_csv,            \* loc.csv at the start of the run
    \* satellite file system
    sat_dir,            \* directory_name exists
    sat_files,          \* positions whose <ID>.png exists
    coverage_exists,    \* image_coverage.csv exists
    image_coverage,     \* lines of image_coverage.csv
    \* locals of get_satellite_image
    csv_exist,
    skip_id,            \* the array of the calling process
    worker_skip,        \* positions a worker decided to skip
    downloaded,         \* positions whose image this run wrote
    pre_coverage,       \* image_coverage.csv at the start of the run
    \* a call of is_gsv_available
    av_pc,              \* "idle" | "urlopen" | "read" | "returned" | "raised"
    av_len,             \* len(loc)
    av_limit,           \* limit, after the None default has been applied
    av_i,               \* loop index i, 1-based
    av_count,           \* count
    availability,       \* the list the function fills and returns
    av_log,             \* urlopen calls made: candidate and what came back
    av_failures,        \* IOErrors raised so far in the call
    \* a call of find_zoom_level
    fz_pc,              \* "idle" | "loop" | "returned" | "raised"
    latitudes,          \* argument
    horizontal_coverage,            \* argument: the ideal coverage
    fz_next,            \* position in sorted_latitudes of the next latitude
    fz_zoom,            \* zoom, as the inner for loop left it
    horizontal_coverage_in_km,      \* locals; each is unbound until first assigned
    ratio,
    prev_ratio,
    prev_horizontal_coverage_in_km,
    zoom_levels,        \* the two arrays the function fills and returns
    actual_horizontal_coverage,
    \* an entry point called with len(IDs) # len(latitude_longitude)
    mm_pc,              \* "idle" | "tasks" | "raised"
    mm_len_IDs,         \* len(IDs)
    mm_len_ll,          \* len(latitude_longitude)
    mm_next,            \* the next task Parallel hands out, 1-based
    mm_requests,        \* HTTP requests issued by the call
    mm_error,           \* the exception that ended the call
    mm_files,           \* positions whose <ID>.png exists in directory_name
    \* a call of get_lat_lon
    gl_pc,              \* "idle" | "returned" | "ValueError" | "IndexError"
    gl_loc,             \* arguments
    gl_d,
    gl_tc,
    gl_lat_lon,         \* the Series returned
    \* a call of use_nearby_search
    ns_pc,              \* "idle" | "top" | "urlopen" | "read" | "returned" | "raised"
    ns_next_page,       \* argument next_page
    request_count,      \* argument and local request_count
    ns_url,             \* the request_count suffixes appended to url so far
    ns_log,             \* what the call did: "sleep", "IOError", or the status read
    ns_data,            \* data: the number of the response it was read from
    ns_status,          \* status
    ns_failures,        \* IOErrors raised so far in the call
    \* get_nearby_places
    np_pc,              \* "idle" | "type" | "paging" | "save"
    np_runs,            \* calls made so far
    np_len_IDs,         \* len(IDs)
    np_i,               \* loop indices i and j, 1-based
    np_j,
    np_data,            \* data: pages merged into 'results', 'next_page_token' present
    np_status,          \* status of the first page
    np_failed,          \* next-page fetches of this place type that were not OK
    np_files,           \* i, j |-> content of <ID>/<place_type>.json, or NoFile
    np_pre,             \* np_files at the start of the call
    np_first,           \* i, j |-> status of the first page fetched by the call
    \* the tasks of get_street_view_image and the paths they write
    tk_pc,              \* per task: "none" | "pending" | "name" | "request" | "journal" | "done"
    tk_IDs,             \* argument IDs
    tk_n_jobs,          \* argument n_jobs
    tk_todo,            \* per task: images still to download
    tk_j,               \* per task: j
    tk_dirs,            \* sub-directory |-> the image numbers present in it
    tk_started,         \* per task: times Parallel has started it
    tk_written,         \* the files written in the run, and by which task
    \* a call of calculate_cost; money in 1/10000 USD
    cc_pc,              \* "idle" | "computed" | "returned" | "raised"
    n_loc,              \* arguments
    cc_price_table,
    n_api_calls_per_loc,
    extra_expense,
    cc_calls_by_range,  \* locals: n_calls_by_range of each index
    prices,
    total,
    cc_printed,         \* the costs have been printed
    cc_result,          \* what the call returned
    \* calls of sign_url
    su_calls,           \* calls made so far
    su_first,           \* the first call: arguments and outcome
    su_last,            \* the latest call: arguments and outcome
    \* the URL step of a street-view task (street_view.py 376-402)
    st_pc,              \* "idle" | "urls" | "raised"
    st_secret,          \* argument secret of get_street_view_image
    st_loc_valid,       \* loc_valid
    st_urls,            \* urls, as the download loop receives them
    st_signed,          \* sign_url was called by the step
    \* the coverage find_zoom_level computes, followed over zooms and latitudes
    cv_pc,              \* "idle" | "computed"
    cv_lat,             \* lat, in degrees
    cv_zoom,            \* zoom
    cv_size,            \* horizontal_size
    cv_km,              \* horizontal_coverage_in_km
    \* get_reviews
    rv_pc,              \* "idle" | "loop" | "read" | "done" | "raised"
    rv_runs,            \* calls made so far
    rv_place_id,        \* argument place_id
    rv_previous,        \* place_id of the call before
    rv_i,               \* loop index i, 1-based
    rv_dir,             \* directory_name exists
    rv_files,           \* place ID |-> the response saved in <place_id>.json, if present
    rv_requests,        \* urlopen calls of the running call
    rv_failures,        \* IOErrors raised in the running call
    rv_pre,             \* rv_files at the start of the call
    rv_first_response   \* place ID |-> the first response urlopen returned for it

runVars == <<phase, nRuns, len_IDs, n_images, limit, n_jobs, hasSeriesAppend>>
gsvFs == <<sub_dir, files, csv_exists, loc_csv>>
gsvLocals == <<n_existing_images, n_needed_images, trial_count, rounds,
               loc_valid, k, j, new_file_names>>
gsvHistory == <<accepted, okLocs, exit, probed, drawn, probe_limit, requested,
                pre_files, pre_csv>>
satFs == <<sat_dir, sat_files, coverage_exists, image_coverage>>
satLocals == <<csv_exist, skip_id, worker_skip, downloaded, pre_coverage>>

avVars == <<av_pc, av_len, av_limit, av_i, av_count, availability, av_log, av_failures>>

\* the state of the two entry points
runState == <<runVars, io_failures, gsvFs, pc, gsvLocals, gsvHistory, satFs, satLocals>>

\* the state of the functions followed on their own
fzVars == <<fz_pc, latitudes, horizontal_coverage, fz_next, fz_zoom,
            horizontal_coverage_in_km, ratio, prev_ratio,
            prev_horizontal_coverage_in_km, zoom_levels, actual_horizontal_coverage>>

mmVars == <<mm_pc, mm_len_IDs, mm_len_ll, mm_next, mm_requests, mm_error, mm_files>>

\* the functions added after find_zoom_level
glVars == <<gl_pc, gl_loc, gl_d, gl_tc, gl_lat_lon>>
nsVars == <<ns_pc, ns_next_page, request_count, ns_url, ns_log, ns_data, ns_status,
            ns_failures>>
npVars == <<np_pc, np_runs, np_len_IDs, np_i, np_j, np_data, np_status, np_failed,
            np_files, np_pre, np_first>>
tkVars == <<tk_pc, tk_IDs, tk_n_jobs, tk_todo, tk_j, tk_dirs, tk_started, tk_written>>
ccVars == <<cc_pc, n_loc, cc_price_table, n_api_calls_per_loc, extra_expense,
            cc_calls_by_range, prices, total, cc_printed, cc_result>>
suVars == <<su_calls, su_first, su_last, st_pc, st_secret, st_loc_valid, st_urls, st_signed>>
cvVars == <<cv_pc, cv_lat, cv_zoom, cv_size, cv_km>>
rvVars == <<rv_pc, rv_runs, rv_place_id, rv_previous, rv_i, rv_dir, rv_files, rv_requests,
            rv_failures, rv_pre, rv_first_response>>
laterVars == <<mmVars, glVars, nsVars, npVars, tkVars, ccVars, suVars, cvVars, rvVars>>

\* everything but the call of is_gsv_available, of find_zoom_level
notAv == <<runState, fzVars, laterVars>>
notFz == <<runState, avVars, laterVars>>
notMm == <<runState, avVars, fzVars, glVars, nsVars, npVars, tkVars, ccVars, suVars, cvVars, rvVars>>
notGl == <<runState, avVars, fzVars, mmVars, nsVars, npVars, tkVars, ccVars, suVars, cvVars, rvVars>>
notNs == <<runState, avVars, fzVars, mmVars, glVars, npVars, tkVars, ccVars, suVars, cvVars, rvVars>>
notNp == <<runState, avVars, fzVars, mmVars, glVars, nsVars, tkVars, ccVars, suVars, cvVars, rvVars>>
notTk == <<runState, avVars, fzVars, mmVars, glVars, nsVars, npVars, ccVars, suVars, cvVars, rvVars>>
notCc == <<runState, avVars, fzVars, mmVars, glVars, nsVars, npVars, tkVars, suVars, cvVars, rvVars>>
notSu == <<runState, avVars, fzVars, mmVars, glVars, nsVars, npVars, tkVars, ccVars, cvVars, rvVars>>
notCv == <<runState, avVars, fzVars, mmVars, glVars, nsVars, npVars, tkVars, ccVars, suVars, rvVars>>
notRv == <<runState, avVars, fzVars, mmVars, glVars, nsVars, npVars, tkVars, ccVars, suVars, cvVars>>

fnVars == <<avVars, fzVars, laterVars>>

vars == <<runState, fnVars>>

\* a local variable that has not been assigned, and one that holds v
Unbound == [bound |-> FALSE, val |-> 0]
Bound(v) == [bound |-> TRUE, val |-> v]

\* no call of find_zoom_level is being followed
NoZoomCall ==
    /\ fz_pc = "idle"
    /\ latitudes = << >>
    /\ horizontal_coverage = 0
    /\ fz_next = 0
    /\ fz_zoom = Unbound
    /\ horizontal_coverage_in_km = Unbound
    /\ ratio = Unbound
    /\ prev_ratio = Unbound
    /\ prev_horizontal_coverage_in_km = Unbound
    /\ zoom_levels = << >>
    /\ actual_horizontal_coverage = << >>

\* no mismatched call is being followed; directory_name is empty
NoMismatch ==
    /\ mm_pc = "idle"
    /\ mm_len_IDs = 0
    /\ mm_len_ll = 0
    /\ mm_next = 0
    /\ mm_requests = 0
    /\ mm_error = "none"
    /\ mm_files = {}

\* an argument that is a single value, and one that is array-like
Scalar(v) == [list |-> FALSE, v |-> <<v>>]
List(s) == [list |-> TRUE, v |-> s]

\* no call of get_lat_lon is being followed
NoLatLonCall ==
    /\ gl_pc = "idle"
    /\ gl_loc = Scalar(0)
    /\ gl_d = Scalar(0)
    /\ gl_tc = Scalar(0)
    /\ gl_lat_lon = << >>

\* no call of use_nearby_search is being followed
NoSearchCall ==
    /\ ns_pc = "idle"
    /\ ns_next_page = FALSE
    /\ request_count = 0
    /\ ns_url = << >>
    /\ ns_log = << >>
    /\ ns_data = 0
    /\ ns_status = "none"
    /\ ns_failures = 0

\* no <ID>/<place_type>.json, and no data
NoFile == [status |-> "none", pages |-> 0]
NoData == [pages |-> 0, token |-> FALSE]
Types == 1..NumTypes

\* get_nearby_places has not been called; directory_name is empty
NoPlaces ==
    /\ np_pc = "idle"
    /\ np_runs = 0
    /\ np_len_IDs = 0
    /\ np_i = 0
    /\ np_j = 0
    /\ np_data = NoData
    /\ np_status = "none"
    /\ np_failed = 0
    /\ np_files = [a \in Positions |-> [b \in Types |-> NoFile]]
    /\ np_pre = [a \in Positions |-> [b \in Types |-> NoFile]]
    /\ np_first = [a \in Positions |-> [b \in Types |-> "none"]]

\* the values an ID can take: the int n and the str "n"
NumTexts == 2
IdValues == {[type |-> t, text |-> x] : t \in {"int", "str"}, x \in 1..NumTexts}

\* street_view.py 311: str(IDs[i]); the int n and the str "n" both give "n"
Str(id) == id.text

\* no run is being followed; directory_name is empty
NoTasks ==
    /\ tk_pc = [i \in Positions |-> "none"]
    /\ tk_IDs = << >>
    /\ tk_n_jobs = 1
    /\ tk_todo = [i \in Positions |-> 0]
    /\ tk_j = [i \in Positions |-> 0]
    /\ tk_dirs = [x \in 1..NumTexts |-> {}]
    /\ tk_started = [i \in Positions |-> 0]
    /\ tk_written = {}

\* cost_analysis.py 128-129: the APIs of the default pricing table
APIs == {"static_maps", "nearby_search", "static_street_view", "places_details(atmosphere)"}

\* Python's None
None == [none |-> TRUE, cost |-> [a \in {} |-> 0]]

\* no call of calculate_cost is being followed
NoCostCall ==
    /\ cc_pc = "idle"
    /\ n_loc = 1
    /\ cc_price_table = None
    /\ n_api_calls_per_loc = [a \in APIs |-> 0]
    /\ extra_expense = 0
    /\ cc_calls_by_range = [a \in {} |-> << >>]
    /\ prices = [a \in {} |-> 0]
    /\ total = 0
    /\ cc_printed = FALSE
    /\ cc_result = None

\* a call of sign_url: its arguments and how it ended
Call(input_urls, secret, out) == [input_urls |-> input_urls, secret |-> secret, out |-> out]
NoSignCall == Call(None, None, [pc |-> "none", signed_urls |-> << >>])

\* sign_url has not been called and no task has built its URLs
NoSign ==
    /\ su_calls = 0
    /\ su_first = NoSignCall
    /\ su_last = NoSignCall
    /\ st_pc = "idle"
    /\ st_secret = None
    /\ st_loc_valid = << >>
    /\ st_urls = << >>
    /\ st_signed = FALSE

\* a float: mantissa m times 2^(-e)
Float(m, e) == [m |-> m, e |-> e]

\* no coverage has been computed
NoCoverage ==
    /\ cv_pc = "idle"
    /\ cv_lat = 0
    /\ cv_zoom = 0
    /\ cv_size = 0
    /\ cv_km = Float(0, 0)

\* get_reviews has not been called and the directory does not exist
NoReviews ==
    /\ rv_pc = "idle"
    /\ rv_runs = 0
    /\ rv_place_id = << >>
    /\ rv_previous = << >>
    /\ rv_i = 1
    /\ rv_dir = FALSE
    /\ rv_files = [p \in {} |-> 0]
    /\ rv_requests = 0
    /\ rv_failures = 0
    /\ rv_pre = [p \in {} |-> 0]
    /\ rv_first_response = [p \in {} |-> 0]

\* no call of is_gsv_available is being followed
NoCall ==
    /\ av_pc = "idle"
    /\ av_len = 0
    /\ av_limit = 0
    /\ av_i = 0
    /\ av_count = 0
    /\ availability = << >>
    /\ av_log = << >>
    /\ av_failures = 0

NoLocals ==
    /\ n_existing_images = [i \in Positions |-> 0]
    /\ n_needed_images = [i \in Positions |-> 0]
    /\ trial_count = [i \in Positions |-> 0]
    /\ rounds = [i \in Positions |-> 0]
    /\ loc_valid = [i \in Positions |-> << >>]
    /\ k = [i \in Positions |-> 0]
    /\ j = [i \in Positions |-> 0]
    /\ new_file_names = [i \in Positions |-> << >>]
    /\ accepted = [i \in Positions |-> << >>]
    /\ okLocs = [i \in Positions |-> {}]
    /\ exit = [i \in Positions |-> "none"]
    /\ probed = [i \in Positions |-> 0]
    /\ drawn = [i \in Positions |-> 0]
    /\ probe_limit = [i \in Positions |-> 0]
    /\ requested = [i \in Positions |-> 0]
    /\ pre_files = [i \in Positions |-> << >>]
    /\ pre_csv = [i \in Positions |-> << >>]
    /\ csv_exist = FALSE
    /\ skip_id = [i \in Positions |-> 0]
    /\ worker_skip = {}
    /\ downloaded = {}
    /\ pre_coverage = << >>

Init ==
    /\ phase = "idle"
    /\ nRuns = 0
    /\ len_IDs = 0
    /\ n_images = 1
    /\ limit = 1
    /\ n_jobs = 1
    /\ hasSeriesAppend \in BOOLEAN
    /\ io_failures = 0
    /\ sub_dir = [i \in Positions |-> FALSE]
    /\ files = [i \in Positions |-> << >>]
    /\ csv_exists = [i \in Positions |-> FALSE]
    /\ loc_csv = [i \in Positions |-> << >>]
    /\ pc = [i \in Positions |-> "none"]
    /\ sat_dir = FALSE
    /\ sat_files = {}
    /\ coverage_exists = FALSE
    /\ image_coverage = << >>
    /\ NoLocals
    /\ NoCall
    /\ NoZoomCall
    /\ NoMismatch
    /\ NoLatLonCall
    /\ NoSearchCall
    /\ NoPlaces
    /\ NoTasks
    /\ NoCostCall
    /\ NoSign
    /\ NoCoverage
    /\ NoReviews

\* Parallel(n_jobs)(delayed(f)(i) for i in range(len(IDs))): tasks are
\* handed out in input order, at most n_jobs of them in flight.
Dispatchable(i) ==
    /\ pc[i] = "pending"
    /\ \A m \in Positions : m < i => pc[m] # "pending"
    /\ Cardinality({m \in 1..len_IDs : pc[m] \notin {"pending", "done", "raised"}}) < n_jobs

\* joblib runs the tasks in the calling process only for n_jobs = 1; with
\* more jobs each task runs in a worker process on a copy of the closure.
InProcess(w) == w = 1

\* ---------------------------------------------------- get_street_view_image
StartGsv(m, n, l, w) ==
    /\ phase = "idle"
    /\ nRuns < MaxRuns
    /\ phase' = "gsv"
    /\ nRuns' = nRuns + 1
    /\ len_IDs' = m
    /\ n_images' = n
    /\ limit' = l
    /\ n_jobs' = w
    /\ io_failures' = 0
    /\ pc' = [i \in Positions |-> IF i <= m THEN "pending" ELSE "none"]
    /\ pre_files' = files
    /\ pre_csv' = loc_csv
    /\ UNCHANGED <<hasSeriesAppend, gsvFs, gsvLocals, accepted, okLocs, exit,
                   probed, drawn, probe_limit, requested, satFs, satLocals, fnVars>>

\* lines 311-333: resume check and deficit
GsvStart(i) ==
    /\ phase = "gsv"
    /\ Dispatchable(i)
    /\ LET existing == IF sub_dir[i] THEN Cardinality(DOMAIN files[i]) ELSE 0
       IN  /\ sub_dir' = [sub_dir EXCEPT ![i] = TRUE]
           /\ IF sub_dir[i] /\ IsComplete(existing, n_images)
              THEN /\ pc' = [pc EXCEPT ![i] = "done"]
                   /\ exit' = [exit EXCEPT ![i] = "complete"]
                   /\ UNCHANGED <<n_existing_images, n_needed_images>>
              ELSE /\ pc' = [pc EXCEPT ![i] = "sample"]
                   /\ n_existing_images' = [n_existing_images EXCEPT ![i] = existing]
                   /\ n_needed_images' = [n_needed_images EXCEPT ![i] = Deficit(n_images, existing)]
                   /\ UNCHANGED exit
    /\ UNCHANGED <<runVars, io_failures, files, csv_exists, loc_csv, trial_count,
                   rounds, loc_valid, k, j, new_file_names, accepted, okLocs,
                   probed, drawn, probe_limit, requested, pre_files, pre_csv,
                   satFs, satLocals, fnVars>>

\* lines 336-370: one iteration of the sampler's while loop, the metadata
\* service answering status st[c] for candidate c
GsvRoundWith(i, st) ==
    /\ phase = "gsv"
    /\ pc[i] = "sample"
    /\   LET candidates == lat_lon(rounds[i] + 1, st, n_images)
             available == is_gsv_available(st, n_images)
             loc_valid_new == MaskSelect(candidates, available)
             lv == Accumulate(loc_valid[i], loc_valid_new)
         IN  /\ rounds' = [rounds EXCEPT ![i] = @ + 1]
             /\ drawn' = [drawn EXCEPT ![i] = Len(candidates)]
             /\ probe_limit' = [probe_limit EXCEPT ![i] = n_images]
             /\ probed' = [probed EXCEPT ![i] = @ + n_probed(st, n_images)]
             /\ okLocs' = [okLocs EXCEPT ![i] =
                             @ \cup {candidates[c] : c \in {d \in 1..n_probed(st, n_images) : st[d] = "OK"}}]
             /\ IF rounds[i] > 0 /\ ~hasSeriesAppend
                THEN \* AttributeError: 'Series' object has no attribute 'append'
                     /\ pc' = [pc EXCEPT ![i] = "raised"]
                     /\ exit' = [exit EXCEPT ![i] = "raised"]
                     /\ accepted' = [accepted EXCEPT ![i] = @ \o loc_valid_new]
                     /\ UNCHANGED <<loc_valid, trial_count>>
                ELSE /\ accepted' = [accepted EXCEPT ![i] = @ \o loc_valid_new]
                     /\ IF Len(lv) >= n_needed_images[i]
                        THEN /\ loc_valid' = [loc_valid EXCEPT ![i] = Truncate(lv, n_needed_images[i])]
                             /\ exit' = [exit EXCEPT ![i] = "enough"]
                             /\ pc' = [pc EXCEPT ![i] =
                                         IF Truncate(lv, n_needed_images[i]) = << >>
                                         THEN "journal" ELSE "name"]
                             /\ UNCHANGED trial_count
                        ELSE IF 2 * n_images * limit < trial_count[i]
                        THEN /\ loc_valid' = [loc_valid EXCEPT ![i] = lv]
                             /\ exit' = [exit EXCEPT ![i] = "shortfall"]
                             /\ pc' = [pc EXCEPT ![i] = IF lv = << >> THEN "journal" ELSE "name"]
                             /\ UNCHANGED trial_count
                        ELSE /\ loc_valid' = [loc_valid EXCEPT ![i] = lv]
                             /\ trial_count' = [trial_count EXCEPT ![i] = @ + 3 * n_images]
                             /\ UNCHANGED <<pc, exit>>
    /\ UNCHANGED <<runVars, io_failures, gsvFs, n_existing_images, n_needed_images,
                   k, j, new_file_names, requested, pre_files, pre_csv, satFs, satLocals, fnVars>>

\* the service may answer anything
GsvRound(i) ==
    \E st \in [1..n_candidates(n_images) -> Status] : GsvRoundWith(i, st)

\* lines 408-414: find an unused file name
GsvChooseName(i) ==
    /\ phase = "gsv"
    /\ pc[i] = "name"
    /\ j' = [j EXCEPT ![i] = FirstUnused(files[i], j[i])]
    /\ new_file_names' = [new_file_names EXCEPT ![i] = Append(@, FirstUnused(files[i], j[i]))]
    /\ pc' = [pc EXCEPT ![i] = "request"]
    /\ UNCHANGED <<runVars, io_failures, gsvFs, n_existing_images, n_needed_images,
                   trial_count, rounds, loc_valid, k, gsvHistory, satFs, satLocals, fnVars>>

\* lines 416-421: urlopen raises IOError, the request is retried
GsvImageIOError(i) ==
    /\ phase = "gsv"
    /\ pc[i] = "request"
    /\ io_failures < MaxIOErrors
    /\ io_failures' = io_failures + 1
    /\ UNCHANGED <<runVars, gsvFs, pc, gsvLocals, gsvHistory, satFs, satLocals, fnVars>>

\* lines 419-426: the image arrives and is saved under the chosen name
GsvImageWrite(i) ==
    /\ phase = "gsv"
    /\ pc[i] = "request"
    /\ files' = [files EXCEPT ![i] = WriteFile(@, j[i])]
    /\ requested' = [requested EXCEPT ![i] = @ + 1]
    /\ k' = [k EXCEPT ![i] = @ + 1]
    /\ pc' = [pc EXCEPT ![i] = IF k[i] + 1 = Len(loc_valid[i]) THEN "journal" ELSE "name"]
    /\ UNCHANGED <<runVars, io_failures, sub_dir, csv_exists, loc_csv,
                   n_existing_images, n_needed_images, trial_count, rounds, loc_valid,
                   j, new_file_names, accepted, okLocs, exit, probed, drawn,
                   probe_limit, pre_files, pre_csv, satFs, satLocals, fnVars>>

\* lines 430-439: loc.csv
GsvJournal(i) ==
    /\ phase = "gsv"
    /\ pc[i] = "journal"
    /\ loc_csv' = [loc_csv EXCEPT ![i] =
                     GsvJournalWrite(csv_exists[i], @,
                                     loc_data(new_file_names[i], loc_valid[i]))]
    /\ csv_exists' = [csv_exists EXCEPT ![i] = TRUE]
    /\ pc' = [pc EXCEPT ![i] = "done"]
    \* the task returns: its locals are gone
    /\ n_existing_images' = [n_existing_images EXCEPT ![i] = 0]
    /\ n_needed_images' = [n_needed_images EXCEPT ![i] = 0]
    /\ trial_count' = [trial_count EXCEPT ![i] = 0]
    /\ rounds' = [rounds EXCEPT ![i] = 0]
    /\ loc_valid' = [loc_valid EXCEPT ![i] = << >>]
    /\ k' = [k EXCEPT ![i] = 0]
    /\ j' = [j EXCEPT ![i] = 0]
    /\ new_file_names' = [new_file_names EXCEPT ![i] = << >>]
    /\ accepted' = [accepted EXCEPT ![i] = << >>]
    /\ okLocs' = [okLocs EXCEPT ![i] = {}]
    /\ probed' = [probed EXCEPT ![i] = 0]
    /\ drawn' = [drawn EXCEPT ![i] = 0]
    /\ probe_limit' = [probe_limit EXCEPT ![i] = 0]
    /\ UNCHANGED <<runVars, io_failures, sub_dir, files, exit, requested,
                   pre_files, pre_csv, satFs, satLocals, fnVars>>

\* The run is over: every task returned, or a task raised and joblib
\* re-raised in the caller.  The locals are gone.
ResetLocals ==
    /\ pc' = [i \in Positions |-> "none"]
    /\ n_existing_images' = [i \in Positions |-> 0]
    /\ n_needed_images' = [i \in Positions |-> 0]
    /\ trial_count' = [i \in Positions |-> 0]
    /\ rounds' = [i \in Positions |-> 0]
    /\ loc_valid' = [i \in Positions |-> << >>]
    /\ k' = [i \in Positions |-> 0]
    /\ j' = [i \in Positions |-> 0]
    /\ new_file_names' = [i \in Positions |-> << >>]
    /\ accepted' = [i \in Positions |-> << >>]
    /\ okLocs' = [i \in Positions |-> {}]
    /\ exit' = [i \in Positions |-> "none"]
    /\ probed' = [i \in Positions |-> 0]
    /\ drawn' = [i \in Positions |-> 0]
    /\ probe_limit' = [i \in Positions |-> 0]
    /\ requested' = [i \in Positions |-> 0]
    /\ pre_files' = [i \in Positions |-> << >>]
    /\ pre_csv' = [i \in Positions |-> << >>]
    /\ csv_exist' = FALSE
    /\ skip_id' = [i \in Positions |-> 0]
    /\ worker_skip' = {}
    /\ downloaded' = {}
    /\ pre_coverage' = << >>
    /\ phase' = "idle"
    /\ n_images' = 1
    /\ limit' = 1
    /\ n_jobs' = 1
    /\ io_failures' = 0
    /\ len_IDs' = 0
    /\ UNCHANGED <<nRuns, hasSeriesAppend>>

GsvEndRun ==
    /\ phase = "gsv"
    /\ \/ \A i \in 1..len_IDs : pc[i] = "done"
       \/ \E i \in 1..len_IDs : pc[i] = "raised"
    /\ ResetLocals
    /\ UNCHANGED <<gsvFs, satFs, fnVars>>

\* The process is killed (KeyboardInterrupt, power loss) at any step of a run.
Crash ==
    /\ phase # "idle"
    /\ ResetLocals
    /\ UNCHANGED <<gsvFs, satFs, fnVars>>

\* ------------------------------------------------------ get_satellite_image
\* lines 125-148: zoom levels, urls, directory, skip_id
StartSat(m, w) ==
    /\ phase = "idle"
    /\ nRuns < MaxRuns
    /\ phase' = "sat"
    /\ nRuns' = nRuns + 1
    /\ len_IDs' = m
    /\ n_jobs' = w
    /\ io_failures' = 0
    /\ sat_dir' = TRUE
    /\ csv_exist' = sat_dir
    /\ skip_id' = [i \in Positions |-> 0]
    /\ pre_coverage' = image_coverage
    /\ pc' = [i \in Positions |-> IF i <= m THEN "pending" ELSE "none"]
    /\ UNCHANGED <<n_images, limit, hasSeriesAppend, gsvFs, gsvLocals, gsvHistory,
                   sat_files, coverage_exists, image_coverage, worker_skip, downloaded, fnVars>>

\* lines 106-111: get_single_sat_image, the existence test
SatCheck(i) ==
    /\ phase = "sat"
    /\ Dispatchable(i)
    /\ IF i \in sat_files
       THEN /\ skip_id' = IF InProcess(n_jobs) THEN [skip_id EXCEPT ![i] = 1] ELSE skip_id
            /\ worker_skip' = worker_skip \cup {i}
            /\ pc' = [pc EXCEPT ![i] = "done"]
       ELSE /\ pc' = [pc EXCEPT ![i] = "request"]
            /\ UNCHANGED <<skip_id, worker_skip>>
    /\ UNCHANGED <<runVars, io_failures, gsvFs, gsvLocals, gsvHistory, satFs,
                   csv_exist, downloaded, pre_coverage, fnVars>>

\* lines 112-117: urlopen raises IOError, the request is retried
SatImageIOError(i) ==
    /\ phase = "sat"
    /\ pc[i] = "request"
    /\ io_failures < MaxIOErrors
    /\ io_failures' = io_failures + 1
    /\ UNCHANGED <<runVars, gsvFs, pc, gsvLocals, gsvHistory, satFs, satLocals, fnVars>>

\* lines 115-122: the image arrives and is saved as <ID>.png
SatImageWrite(i) ==
    /\ phase = "sat"
    /\ pc[i] = "request"
    /\ sat_files' = sat_files \cup {i}
    /\ downloaded' = downloaded \cup {i}
    /\ pc' = [pc EXCEPT ![i] = "done"]
    /\ UNCHANGED <<runVars, io_failures, gsvFs, gsvLocals, gsvHistory, sat_dir,
                   coverage_exists, image_coverage, csv_exist, skip_id, worker_skip,
                   pre_coverage, fnVars>>

\* lines 155-167: image_coverage.csv, written once every task has returned
SatJournal ==
    /\ phase = "sat"
    /\ \A i \in 1..len_IDs : pc[i] = "done"
    /\ image_coverage' = SatJournalWrite(csv_exist, image_coverage,
                                          new_data(skip_id, len_IDs))
    /\ coverage_exists' = TRUE
    /\ phase' = "journalled"
    /\ UNCHANGED <<nRuns, len_IDs, n_images, limit, n_jobs, hasSeriesAppend, io_failures, gsvFs,
                   pc, gsvLocals, gsvHistory, sat_dir, sat_files, satLocals, fnVars>>

\* get_satellite_image returns
SatEndRun ==
    /\ phase = "journalled"
    /\ ResetLocals
    /\ UNCHANGED <<gsvFs, satFs, fnVars>>

\* ------------------------------------------------------------ specification
\* the steps of a running entry point
Step ==
    \/ \E i \in Positions : GsvStart(i)
    \/ \E i \in Positions : GsvRound(i)
    \/ \E i \in Positions : GsvChooseName(i)
    \/ \E i \in Positions : GsvImageIOError(i)
    \/ \E i \in Positions : GsvImageWrite(i)
    \/ \E i \in Positions : GsvJournal(i)
    \/ GsvEndRun
    \/ \E i \in Positions : SatCheck(i)
    \/ \E i \in Positions : SatImageIOError(i)
    \/ \E i \in Positions : SatImageWrite(i)
    \/ SatJournal
    \/ SatEndRun
    \/ Crash

\* the entry points are called with any number of IDs
Next ==
    \/ \E m \in 1..NumIDs, n \in 1..MaxImages, l \in 1..MaxLimit, w \in 1..MaxJobs :
          StartGsv(m, n, l, w)
    \/ \E m \in 1..NumIDs, w \in 1..MaxJobs : StartSat(m, w)
    \/ Step

Spec == Init /\ [][Next]_vars

\* The entry points are called with a single ID.  A task reads and writes
\* only the sub-directory of its own ID and its own locals, so what holds
\* of one task is decided by the runs of one task.
NextSingle ==
    \/ \E n \in 1..MaxImages, l \in 1..MaxLimit, w \in 1..MaxJobs : StartGsv(1, n, l, w)
    \/ \E w \in 1..MaxJobs : StartSat(1, w)
    \/ Step

SpecSingle == Init /\ [][NextSingle]_vars

\* --------------------------------------------- is_gsv_available, step by step
\* mutant: every status but NOT_FOUND counts as available
StatusAvailable_NotNotFound(status) == status # "NOT_FOUND"

\* line 208: (status == 'OK')
StatusAvailable(status) == status = "OK"

\* lines 183-198: is_gsv_available(API_key, loc, ..., limit) with len(loc) = n;
\* limit is L if given, None otherwise
AvCall(n, L, given) ==
    /\ av_pc = "idle"
    /\ av_len' = n
    /\ av_limit' = IF given THEN L ELSE n
    /\ availability' = [c \in 1..n |-> FALSE]
    /\ av_count' = 0
    /\ av_i' = IF n = 0 THEN 0 ELSE 1
    /\ av_pc' = IF n = 0 THEN "returned" ELSE "urlopen"
    /\ UNCHANGED <<av_log, av_failures, notAv>>

\* lines 201-205: urlopen raises IOError, the loop tries the same url again
AvUrlopenIOError ==
    /\ av_pc = "urlopen"
    /\ av_failures < MaxIOErrors
    /\ av_failures' = av_failures + 1
    /\ av_log' = Append(av_log, [url |-> av_i, got |-> "IOError"])
    /\ UNCHANGED <<av_pc, av_len, av_limit, av_i, av_count, availability, notAv>>

\* line 203: urlopen returns a response object
AvUrlopen ==
    /\ av_pc = "urlopen"
    /\ av_pc' = "read"
    /\ UNCHANGED <<av_len, av_limit, av_i, av_count, availability, av_log,
                   av_failures, notAv>>

\* line 207: response.read() raises IOError (connection reset, timeout while
\* the body is read); the statement is in the else clause of the try, so no
\* handler catches it
AvReadIOError ==
    /\ av_pc = "read"
    /\ av_failures < MaxIOErrors
    /\ av_failures' = av_failures + 1
    /\ av_log' = Append(av_log, [url |-> av_i, got |-> "ReadIOError"])
    /\ av_pc' = "raised"
    /\ UNCHANGED <<av_len, av_limit, av_i, av_count, availability, notAv>>

\* lines 207-214: the status is read, recorded and counted; the function
\* returns when count == limit or the urls are exhausted
AvRead(status) ==
    /\ av_pc = "read"
    /\ av_log' = Append(av_log, [url |-> av_i, got |-> status])
    /\ availability' = [availability EXCEPT ![av_i] = StatusAvailable(status)]
    /\ LET c == IF StatusAvailable(status) THEN av_count + 1 ELSE av_count
       IN  /\ av_count' = c
           /\ IF c = av_limit \/ av_i = av_len
              THEN av_pc' = "returned" /\ av_i' = av_i
              ELSE av_pc' = "urlopen" /\ av_i' = av_i + 1
    /\ UNCHANGED <<av_len, av_limit, av_failures, notAv>>

\* is_gsv_available called with any list up to MaxLocs locations and any
\* limit, answered with any statuses
NextProbe ==
    \/ \E n \in 0..MaxLocs, L \in 0..(MaxLocs + 1), given \in BOOLEAN : AvCall(n, L, given)
    \/ AvUrlopenIOError
    \/ AvUrlopen
    \/ AvReadIOError
    \/ \E status \in ProbeStatus : AvRead(status)

SpecProbe == Init /\ [][NextProbe]_vars

\* ------------------------------------------------ find_zoom_level, step by step
\* Coverages are positive reals that the code only halves per zoom level,
\* divides by one another, squares and compares.  A coverage is represented
\* by four times its base-2 logarithm, the coverage at zoom 0 on the equator
\* being the unit: halving subtracts 4, a quotient is a difference, a square
\* doubles, the order is kept.  A squared ratio is represented the same way.
\*
\* Latitudes: a latitude is counted in steps that each take a factor
\* 2^(-1/4) off cos(latitude); its sign is kept, since the list is sorted by
\* latitude and the coverage depends on |latitude| only.
Latitudes == (0 - MaxLat)..MaxLat

Abs(x) == IF x < 0 THEN 0 - x ELSE x

\* line 35: best_zoom = 1 (never assigned again)
best_zoom == 1

\* line 37: range(best_zoom-1, 22)
ZoomStop == 22

\* lines 38-39: 156543.03392 * cos(lat) / 2**zoom * horizontal_size / 1000
CoverageAt(lat, zoom) == 0 - Abs(lat) - 4 * zoom

\* ideal coverages a call is made with: from above the coverage at zoom 0
\* on the equator to below the coverage at the last zoom of every latitude
Ideals == (CoverageAt(MaxLat, ZoomStop - 1) - 3)..2

\* line 30: sorted(zip(latitudes, range(len(latitudes))), key=lambda pair: pair[0]),
\* as the sequence of the indices (the sort is stable)
RECURSIVE SortedIndex(_, _)
SortedIndex(lats, S) ==
    IF S = {} THEN << >>
    ELSE LET m == CHOOSE x \in S :
                    \A y \in S : lats[x] < lats[y] \/ (lats[x] = lats[y] /\ x <= y)
         IN  <<m>> \o SortedIndex(lats, S \ {m})

sorted_latitudes(lats) == SortedIndex(lats, DOMAIN lats)

\* lines 37-45: the inner for loop from zoom z on, on locals loc
RECURSIVE ZoomLoop(_, _, _, _)
ZoomLoop(lat, ideal, z, loc) ==
    IF z >= ZoomStop THEN loc
    ELSE LET c == CoverageAt(lat, z)
         IN  IF c > ideal
             THEN ZoomLoop(lat, ideal, z + 1,
                           [loc EXCEPT !.zoom = Bound(z), !.cov = Bound(c),
                                       !.prev_ratio = Bound(2 * (c - ideal)),
                                       !.prev_cov = Bound(c)])
             ELSE [loc EXCEPT !.zoom = Bound(z), !.cov = Bound(c),
                              !.ratio = Bound(2 * (ideal - c))]

\* mutant: the comparison is turned round
CloserIsFiner_Reversed(r, p) == r >= p

\* line 46: ratio <= prev_ratio
CloserIsFiner(r, p) == r <= p

\* mutant: one zoom too far back
PreviousZoom_OffByOne(zoom) == zoom - 2

\* line 50: zoom - 1
PreviousZoom(zoom) == zoom - 1

\* lines 29-35
FzCall(lats, ideal) ==
    /\ fz_pc = "idle"
    /\ fz_pc' = "loop"
    /\ latitudes' = lats
    /\ horizontal_coverage' = ideal
    /\ fz_next' = 1
    /\ zoom_levels' = [n \in DOMAIN lats |-> 0]
    /\ actual_horizontal_coverage' = [n \in DOMAIN lats |-> Unbound]
    /\ UNCHANGED <<fz_zoom, horizontal_coverage_in_km, ratio, prev_ratio,
                   prev_horizontal_coverage_in_km, notFz>>

\* lines 36-51: one iteration of the outer for loop
FzLatitude ==
    /\ fz_pc = "loop"
    /\ fz_next <= Len(latitudes)
    /\ LET index == sorted_latitudes(latitudes)[fz_next]
           loc == ZoomLoop(latitudes[index], horizontal_coverage, best_zoom - 1,
                           [zoom |-> fz_zoom, cov |-> horizontal_coverage_in_km,
                            ratio |-> ratio, prev_ratio |-> prev_ratio,
                            prev_cov |-> prev_horizontal_coverage_in_km])
       IN  /\ fz_zoom' = loc.zoom
           /\ horizontal_coverage_in_km' = loc.cov
           /\ ratio' = loc.ratio
           /\ prev_ratio' = loc.prev_ratio
           /\ prev_horizontal_coverage_in_km' = loc.prev_cov
           /\ IF ~loc.ratio.bound \/ ~loc.prev_ratio.bound
              THEN \* UnboundLocalError at line 46
                   /\ fz_pc' = "raised"
                   /\ UNCHANGED <<fz_next, zoom_levels, actual_horizontal_coverage>>
              ELSE /\ fz_pc' = "loop"
                   /\ fz_next' = fz_next + 1
                   /\ IF CloserIsFiner(loc.ratio.val, loc.prev_ratio.val)
                      THEN /\ zoom_levels' = [zoom_levels EXCEPT ![index] = loc.zoom.val]
                           /\ actual_horizontal_coverage' =
                                 [actual_horizontal_coverage EXCEPT ![index] = loc.cov]
                      ELSE /\ zoom_levels' = [zoom_levels EXCEPT ![index] = PreviousZoom(loc.zoom.val)]
                           /\ actual_horizontal_coverage' =
                                 [actual_horizontal_coverage EXCEPT ![index] = loc.prev_cov]
    /\ UNCHANGED <<latitudes, horizontal_coverage, notFz>>

\* line 53
FzReturn ==
    /\ fz_pc = "loop"
    /\ fz_next > Len(latitudes)
    /\ fz_pc' = "returned"
    /\ UNCHANGED <<latitudes, horizontal_coverage, fz_next, fz_zoom,
                   horizontal_coverage_in_km, ratio, prev_ratio,
                   prev_horizontal_coverage_in_km, zoom_levels,
                   actual_horizontal_coverage, notFz>>

\* find_zoom_level called with any list of up to MaxLats latitudes and any
\* ideal coverage
NextZoom ==
    \/ /\ fz_pc = "idle"
       /\ \E n \in 0..MaxLats : \E lats \in [1..n -> Latitudes], ideal \in Ideals :
             FzCall(lats, ideal)
    \/ FzLatitude
    \/ FzReturn

SpecZoom == Init /\ [][NextZoom]_vars

\* ------------------- the entry points called with lists of different lengths
\* street_view.py 283-285: get_street_view_image raises ValueError
MmCallGsv(m, ll) ==
    /\ mm_pc \in {"idle", "raised"}
    /\ m # ll
    /\ mm_pc' = "raised"
    /\ mm_error' = "ValueError"
    /\ mm_len_IDs' = m
    /\ mm_len_ll' = ll
    /\ mm_next' = 0
    /\ mm_requests' = 0
    /\ UNCHANGED <<mm_files, notMm>>

\* satellite.py 125-153: get_satellite_image computes zoom levels and urls
\* for the len(latitude_longitude) places and hands range(len(IDs)) tasks
\* to Parallel; there is no test of the lengths
MmCallSat(m, ll) ==
    /\ mm_pc \in {"idle", "raised"}
    /\ m # ll
    /\ mm_pc' = "tasks"
    /\ mm_error' = "none"
    /\ mm_len_IDs' = m
    /\ mm_len_ll' = ll
    /\ mm_next' = 1
    /\ mm_requests' = 0
    /\ UNCHANGED <<mm_files, notMm>>

\* satellite.py 105-122: get_single_sat_image(i), tasks in input order.
\* urls has len(latitude_longitude) entries: urls[i] raises KeyError beyond.
MmSatTask ==
    /\ mm_pc = "tasks"
    /\ mm_next <= mm_len_IDs
    /\ IF mm_next > mm_len_ll
       THEN /\ mm_pc' = "raised"
            /\ mm_error' = "KeyError"
            /\ UNCHANGED <<mm_next, mm_requests, mm_files>>
       ELSE /\ mm_next' = mm_next + 1
            /\ IF mm_next \in mm_files
               THEN UNCHANGED <<mm_requests, mm_files>>
               ELSE /\ mm_requests' = mm_requests + 1
                    /\ mm_files' = mm_files \cup {mm_next}
            /\ UNCHANGED <<mm_pc, mm_error>>
    /\ UNCHANGED <<mm_len_IDs, mm_len_ll, notMm>>

\* satellite.py 156: actual_horizontal[skip_id==0], an array of
\* len(latitude_longitude) entries indexed by a mask of len(IDs) entries,
\* raises IndexError
MmSatSave ==
    /\ mm_pc = "tasks"
    /\ mm_next > mm_len_IDs
    /\ mm_pc' = "raised"
    /\ mm_error' = "IndexError"
    /\ UNCHANGED <<mm_len_IDs, mm_len_ll, mm_next, mm_requests, mm_files, notMm>>

\* the two entry points called with any two different lengths
NextMismatch ==
    \/ /\ mm_pc \in {"idle", "raised"}
       /\ \E m \in 0..NumIDs, ll \in 0..(NumIDs + 1) : MmCallGsv(m, ll)
    \/ /\ mm_pc \in {"idle", "raised"}
       /\ \E m \in 0..NumIDs, ll \in 0..(NumIDs + 1) : MmCallSat(m, ll)
    \/ MmSatTask
    \/ MmSatSave

SpecMismatch == Init /\ [][NextMismatch]_vars

\* ------------------------------------------------------------- get_lat_lon
\* Distances are counted in half kilometres and bearings in quarter turns
\* (pi/2), so that the two limits of lines 124 and 128 are whole numbers.
\* line 123: circumference = 40075 km; circumference / 2 in half kilometres
circumference == 40075

\* 2 * np.pi in quarter turns
TwoPi == 4

\* the origins, distances and bearings a call is made with
Origins == {1, 2}
Distances == {0, circumference, circumference + 1}
Bearings == {0 - 1, 0, TwoPi, TwoPi + 1}

\* hasattr(x, '__len__') for a float or a list; for loc, a str is not array-like
HasLen(x) == x.list

\* line 124: any(np.array(d) > circumference / 2)
DistanceTooLarge(d) == \E n \in DOMAIN d : d[n] > circumference

\* line 128: any(np.logical_or(np.array(tc) < 0, np.array(tc) > 2 * np.pi))
DirectionOutside(tc) == \E n \in DOMAIN tc : tc[n] < 0 \/ tc[n] > TwoPi

\* lines 131-147: the place d away from loc in direction tc, kept symbolic
Destination(loc, d, tc) == [from |-> loc, d |-> d, tc |-> tc]

\* the outcome of a call: a ValueError, or the Series returned
ValueError == [pc |-> "ValueError", lat_lon |-> << >>]
Returns(s) == [pc |-> "returned", lat_lon |-> s]

\* lines 131, 138: loc = np.array([...], dtype=float) of no place is
\* 1-dimensional and loc[:, 0] raises IndexError
IndexError == [pc |-> "IndexError", lat_lon |-> << >>]

\* lines 123-152, on lists loc, d, tc of one length
Travel(loc, d, tc) ==
    IF DistanceTooLarge(d) \/ DirectionOutside(tc)
    THEN ValueError
    ELSE IF Len(d) = 0
    THEN IndexError
    ELSE Returns([n \in 1..Len(d) |-> Destination(loc[n], d[n], tc[n])])

\* lines 96-152: what the call returns or that it raises ValueError
get_lat_lon(loc, d, tc) ==
    IF HasLen(d) /\ ~HasLen(tc) THEN ValueError                      \* 98-100
    ELSE IF HasLen(d) /\ Len(d.v) # Len(tc.v) THEN ValueError        \* 101-102
    ELSE IF HasLen(loc)
         THEN IF ~HasLen(d) THEN ValueError                          \* 106-108
              ELSE IF Len(loc.v) # Len(d.v) THEN ValueError          \* 109-111
              ELSE Travel(loc.v, d.v, tc.v)
         ELSE IF HasLen(d)
              THEN Travel([n \in 1..Len(d.v) |-> loc.v[1]], d.v, tc.v)  \* 115-116
              ELSE IF HasLen(tc)
                   \* 118-120: tc = [tc] is a nested list; any() of the
                   \* 2-d array (128) or pd.Series of 2-d data (149) raises
                   THEN ValueError
                   ELSE Travel(loc.v, d.v, tc.v)

\* s, as a float or as a list
Args(S) ==
    {Scalar(v) : v \in S}
      \cup {List(s) : s \in UNION {[1..n -> S] : n \in 0..MaxTriples}}

LlCall(loc, d, tc) ==
    /\ gl_pc = "idle"
    /\ gl_loc' = loc
    /\ gl_d' = d
    /\ gl_tc' = tc
    /\ LET out == get_lat_lon(loc, d, tc)
       IN  /\ gl_pc' = out.pc
           /\ gl_lat_lon' = out.lat_lon
    /\ UNCHANGED notGl

\* get_lat_lon called once with any arguments
NextLatLon ==
    /\ gl_pc = "idle"
    /\ \E loc \in Args(Origins), d \in Args(Distances), tc \in Args(Bearings) :
          LlCall(loc, d, tc)

SpecLatLon == Init /\ [][NextLatLon]_vars

\* ------------------------------------------- use_nearby_search, step by step
\* statuses of a Nearby Search response
SearchStatus == {"OK", "ZERO_RESULTS", "INVALID_REQUEST", "OVER_QUERY_LIMIT"}

\* the responses read so far in the call
Responses(log) == {n \in DOMAIN log : log[n] \in SearchStatus}

\* mutant: gives up one trial later
GivesUp_Later(count) == count > 3

\* line 44: request_count >= 3
GivesUp(count) == count >= 3

\* lines 8, 177, 164: called for a first page or for a next page, with
\* request_count = 0
NsCall(next_page) ==
    /\ ns_pc = "idle"
    /\ ns_pc' = "top"
    /\ ns_next_page' = next_page
    /\ request_count' = 0
    /\ ns_url' = << >>
    /\ ns_log' = << >>
    /\ ns_data' = 0
    /\ ns_status' = "none"
    /\ ns_failures' = 0
    /\ UNCHANGED notNs

\* lines 29-31: top of the while loop, time.sleep(3) for a next page
NsTop ==
    /\ ns_pc = "top"
    /\ ns_pc' = "urlopen"
    /\ ns_log' = IF ns_next_page THEN Append(ns_log, "sleep") ELSE ns_log
    /\ UNCHANGED <<ns_next_page, request_count, ns_url, ns_data, ns_status,
                   ns_failures, notNs>>

\* lines 35-37: urlopen raises IOError, the loop starts over
NsUrlopenIOError ==
    /\ ns_pc = "urlopen"
    /\ ns_failures < MaxIOErrors
    /\ ns_failures' = ns_failures + 1
    /\ ns_log' = Append(ns_log, "IOError")
    /\ ns_pc' = "top"
    /\ UNCHANGED <<ns_next_page, request_count, ns_url, ns_data, ns_status, notNs>>

\* line 35: urlopen returns a response
NsUrlopen ==
    /\ ns_pc = "urlopen"
    /\ ns_pc' = "read"
    /\ UNCHANGED <<ns_next_page, request_count, ns_url, ns_log, ns_data, ns_status,
                   ns_failures, notNs>>

\* line 39: response.read() raises IOError in the else clause of the try:
\* the exception leaves the function
NsReadIOError ==
    /\ ns_pc = "read"
    /\ ns_failures < MaxIOErrors
    /\ ns_failures' = ns_failures + 1
    /\ ns_log' = Append(ns_log, "ReadIOError")
    /\ ns_pc' = "raised"
    /\ UNCHANGED <<ns_next_page, request_count, ns_url, ns_data, ns_status, notNs>>

\* lines 39-55: the response is read.  The recursive call of lines 50-51
\* runs this same loop on the longer url and its result is returned
\* unchanged (line 52), so the call goes on at the top of the loop.
NsRead(status) ==
    /\ ns_pc = "read"
    /\ ns_log' = Append(ns_log, status)
    /\ ns_data' = Cardinality(Responses(ns_log)) + 1
    /\ ns_status' = status
    /\ IF status = "INVALID_REQUEST" /\ ns_next_page /\ ~GivesUp(request_count)
       THEN /\ request_count' = request_count + 1
            /\ ns_url' = Append(ns_url, request_count + 1)
            /\ ns_pc' = "top"
       ELSE /\ ns_pc' = "returned"
            /\ UNCHANGED <<request_count, ns_url>>
    /\ UNCHANGED <<ns_next_page, ns_failures, notNs>>

\* use_nearby_search called once, the service answering anything
NextSearch ==
    \/ \E next_page \in BOOLEAN : NsCall(next_page)
    \/ NsTop
    \/ NsUrlopenIOError
    \/ NsUrlopen
    \/ NsReadIOError
    \/ \E status \in SearchStatus : NsRead(status)

SpecSearch == Init /\ [][NextSearch]_vars

\* ---------------------------------------------------------- get_nearby_places
\* mutant: an empty result is not saved
Saved_OnlyOK(status) == status = "OK"

\* lines 184, 189: status == 'OK', status == 'ZERO_RESULTS'
Saved(status) == status \in {"OK", "ZERO_RESULTS"}

\* lines 155, 143, 196: the loops go on with the next place type, the next
\* ID, or the function returns
Advance ==
    /\ np_j' = IF np_j < NumTypes THEN np_j + 1 ELSE 1
    /\ np_i' = IF np_j < NumTypes THEN np_i ELSE np_i + 1
    /\ np_pc' = IF np_j = NumTypes /\ np_i = np_len_IDs THEN "idle" ELSE "type"
    /\ np_data' = NoData
    /\ np_status' = "none"
    /\ np_failed' = 0

\* lines 127-144: called with m IDs
NpCall(m) ==
    /\ np_pc = "idle"
    /\ np_runs < MaxRuns
    /\ np_runs' = np_runs + 1
    /\ np_len_IDs' = m
    /\ np_i' = 1
    /\ np_j' = 1
    /\ np_pc' = "type"
    /\ np_pre' = np_files
    /\ np_first' = [a \in Positions |-> [b \in Types |-> "none"]]
    /\ UNCHANGED <<np_data, np_status, np_failed, np_files, notNp>>

\* lines 158-161: the json file exists, continue
NpExists ==
    /\ np_pc = "type"
    /\ np_files[np_i][np_j] # NoFile
    /\ Advance
    /\ UNCHANGED <<np_runs, np_len_IDs, np_files, np_pre, np_first, notNp>>

\* line 164: use_nearby_search(url) returns the first page; the service
\* gives a next_page_token only with status OK
NpFirstPage(status, token) ==
    /\ np_pc = "type"
    /\ np_files[np_i][np_j] = NoFile
    /\ token => (status = "OK" /\ MaxPages >= 1)
    /\ np_data' = [pages |-> 1, token |-> token]
    /\ np_status' = status
    /\ np_first' = [np_first EXCEPT ![np_i][np_j] = status]
    /\ np_pc' = "paging"
    /\ UNCHANGED <<np_runs, np_len_IDs, np_i, np_j, np_failed, np_files, np_pre, notNp>>

\* lines 167-171: data has no 'next_page_token', break
NpNoNextPage ==
    /\ np_pc = "paging"
    /\ ~np_data.token
    /\ np_pc' = "save"
    /\ UNCHANGED <<np_runs, np_len_IDs, np_i, np_j, np_data, np_status, np_failed,
                   np_files, np_pre, np_first, notNp>>

\* lines 172-181 and concat_next_page: the next page is fetched; an OK page
\* is merged and its token, if any, replaces the old one; otherwise a
\* message is printed and the while loop goes on
NpNextPage(status, token) ==
    /\ np_pc = "paging"
    /\ np_data.token
    /\ token => (status = "OK" /\ np_data.pages < MaxPages)
    /\ IF status = "OK"
       THEN /\ np_data' = [pages |-> np_data.pages + 1, token |-> token]
            /\ UNCHANGED np_failed
       ELSE /\ np_failed < MaxFailedFetches
            /\ np_failed' = np_failed + 1
            /\ UNCHANGED np_data
    /\ UNCHANGED <<np_pc, np_runs, np_len_IDs, np_i, np_j, np_status, np_files,
                   np_pre, np_first, notNp>>

\* lines 183-195: data is saved for OK and ZERO_RESULTS
NpSave ==
    /\ np_pc = "save"
    /\ np_files' = IF Saved(np_status)
                   THEN [np_files EXCEPT ![np_i][np_j] =
                           [status |-> np_status, pages |-> np_data.pages]]
                   ELSE np_files
    /\ Advance
    /\ UNCHANGED <<np_runs, np_len_IDs, np_pre, np_first, notNp>>

\* get_nearby_places called again and again, the service answering anything
NextPlaces ==
    \/ \E m \in 1..NumIDs : NpCall(m)
    \/ NpExists
    \/ \E status \in SearchStatus, token \in BOOLEAN : NpFirstPage(status, token)
    \/ NpNoNextPage
    \/ \E status \in SearchStatus, token \in BOOLEAN : NpNextPage(status, token)
    \/ NpSave

SpecPlaces == Init /\ [][NextPlaces]_vars

\* get_nearby_places called with a single ID
NextPlacesSingle ==
    \/ NpCall(1)
    \/ NpExists
    \/ \E status \in SearchStatus, token \in BOOLEAN : NpFirstPage(status, token)
    \/ NpNoNextPage
    \/ \E status \in SearchStatus, token \in BOOLEAN : NpNextPage(status, token)
    \/ NpSave

SpecPlacesSingle == Init /\ [][NextPlacesSingle]_vars

\* ------------------------------ the tasks of one run and the paths they write
\* street_view.py 316: sub_dir = f"{directory_name}/{id_}"
sub_dir_of(i) == Str(tk_IDs[i])

\* Parallel(n_jobs): tasks are started in input order, n_jobs at a time
TkDispatchable(i) ==
    /\ i \in DOMAIN tk_IDs
    /\ tk_pc[i] = "pending"
    /\ \A m \in DOMAIN tk_IDs : m < i => tk_pc[m] # "pending"
    /\ Cardinality({m \in DOMAIN tk_IDs : tk_pc[m] \notin {"pending", "done"}}) < tk_n_jobs

\* street_view.py 441-445: a run with pairwise distinct IDs
TkCall(ids, w) ==
    /\ tk_IDs = << >>
    /\ \A a, b \in DOMAIN ids : a # b => ids[a] # ids[b]
    /\ tk_IDs' = ids
    /\ tk_n_jobs' = w
    /\ tk_pc' = [i \in Positions |-> IF i \in DOMAIN ids THEN "pending" ELSE "none"]
    /\ UNCHANGED <<tk_todo, tk_j, tk_dirs, tk_started, tk_written, notTk>>

\* street_view.py 310-370: the task starts; the sampler leaves it n
\* locations to download
TkStart(i, n) ==
    /\ TkDispatchable(i)
    /\ tk_started' = [tk_started EXCEPT ![i] = @ + 1]
    /\ tk_todo' = [tk_todo EXCEPT ![i] = n]
    /\ tk_j' = [tk_j EXCEPT ![i] = 0]
    /\ tk_pc' = [tk_pc EXCEPT ![i] = IF n = 0 THEN "journal" ELSE "name"]
    /\ UNCHANGED <<tk_IDs, tk_n_jobs, tk_dirs, tk_written, notTk>>

\* street_view.py 323-327: the sub-directory holds n_images images already
TkComplete(i) ==
    /\ TkDispatchable(i)
    /\ tk_dirs[sub_dir_of(i)] # {}
    /\ tk_started' = [tk_started EXCEPT ![i] = @ + 1]
    /\ tk_pc' = [tk_pc EXCEPT ![i] = "done"]
    /\ UNCHANGED <<tk_IDs, tk_n_jobs, tk_todo, tk_j, tk_dirs, tk_written, notTk>>

\* street_view.py 408-414: the first unused file name of the sub-directory
TkChooseName(i) ==
    /\ i \in DOMAIN tk_IDs
    /\ tk_pc[i] = "name"
    /\ tk_j' = [tk_j EXCEPT ![i] =
                  CHOOSE n \in tk_j[i]..(tk_j[i] + Cardinality(tk_dirs[sub_dir_of(i)])) :
                      /\ n \notin tk_dirs[sub_dir_of(i)]
                      /\ \A m \in tk_j[i]..(n - 1) : m \in tk_dirs[sub_dir_of(i)]]
    /\ tk_pc' = [tk_pc EXCEPT ![i] = "request"]
    /\ UNCHANGED <<tk_IDs, tk_n_jobs, tk_todo, tk_dirs, tk_started, tk_written, notTk>>

\* street_view.py 416-426: the image is fetched and written
TkWrite(i) ==
    /\ i \in DOMAIN tk_IDs
    /\ tk_pc[i] = "request"
    /\ tk_dirs' = [tk_dirs EXCEPT ![sub_dir_of(i)] = @ \cup {tk_j[i]}]
    /\ tk_written' = tk_written \cup
                       {[task |-> i, dir |-> sub_dir_of(i), file |-> tk_j[i]]}
    /\ tk_todo' = [tk_todo EXCEPT ![i] = @ - 1]
    /\ tk_pc' = [tk_pc EXCEPT ![i] = IF tk_todo[i] = 1 THEN "journal" ELSE "name"]
    /\ UNCHANGED <<tk_IDs, tk_n_jobs, tk_j, tk_started, notTk>>

\* street_view.py 430-439: loc.csv of the sub-directory is written
TkJournal(i) ==
    /\ i \in DOMAIN tk_IDs
    /\ tk_pc[i] = "journal"
    /\ tk_written' = tk_written \cup
                       {[task |-> i, dir |-> sub_dir_of(i), file |-> 0 - 1]}
    /\ tk_pc' = [tk_pc EXCEPT ![i] = "done"]
    /\ UNCHANGED <<tk_IDs, tk_n_jobs, tk_todo, tk_j, tk_dirs, tk_started, notTk>>

\* one run over any pairwise distinct IDs with any n_jobs
NextTasks ==
    \/ /\ tk_IDs = << >>
       /\ \E n \in 1..NumIDs : \E ids \in [1..n -> IdValues], w \in 1..MaxJobs :
             TkCall(ids, w)
    \/ \E i \in Positions, n \in 0..MaxImages : TkStart(i, n)
    \/ \E i \in Positions : TkComplete(i)
    \/ \E i \in Positions : TkChooseName(i)
    \/ \E i \in Positions : TkWrite(i)
    \/ \E i \in Positions : TkJournal(i)

SpecTasks == Init /\ [][NextTasks]_vars

\* ---------------------------------------------------------- calculate_cost
\* Money is counted in 1/10000 USD, so that a price per 1000 calls with one
\* decimal, times a number of calls, divided by 1000, is a whole number:
\* n calls at p USD per 1000 cost n * (10 * p) units.
\* cost_analysis.py 130: columns=[0, 100000], the thresholds of the ranges
columns == <<0, 100000>>

\* cost_analysis.py 128-129: the default pricing table, 10 * USD per 1000 calls
price_table ==
    [a \in APIs |->
        CASE a = "static_maps" -> <<20, 16>>
          [] a = "nearby_search" -> <<400, 320>>
          [] a = "static_street_view" -> <<70, 56>>
          [] a = "places_details(atmosphere)" -> <<220, 176>>]

Max(a, b) == IF a > b THEN a ELSE b

RECURSIVE SumSeq(_)
SumSeq(s) == IF s = << >> THEN 0 ELSE Head(s) + SumSeq(Tail(s))

RECURSIVE SumOver(_, _)
SumOver(f, S) ==
    IF S = {} THEN 0
    ELSE LET a == CHOOSE x \in S : TRUE IN f[a] + SumOver(f, S \ {a})

\* lines 127-130: price_table=None stands for the default pricing table
DefaultTable == [columns |-> columns, rows |-> price_table]

\* pricing tables of 1..MaxTiers price ranges; the one of two ranges is the
\* default table, every further range starts 200000 calls later and is a
\* fifth of the first price cheaper
Threshold(c) == IF c = 1 THEN 0 ELSE (2 * c - 3) * 100000
TierPrice(a, c) == price_table[a][1] - (c - 1) * (price_table[a][1] \div 5)
Table(tiers) ==
    [columns |-> [c \in 1..tiers |-> Threshold(c)],
     rows |-> [a \in APIs |-> [c \in 1..tiers |-> TierPrice(a, c)]]]

\* mutant: the calls above each threshold, not taken apart by range
n_calls_by_range_Above(n, cols) == [c \in DOMAIN cols |-> Max(n - cols[c], 0)]

\* lines 140-142: the calls that fall into each price range
n_calls_by_range(n, cols) ==
    LET over == [c \in DOMAIN cols |-> Max(n - cols[c], 0)]
    IN  [c \in DOMAIN cols |->
            IF c < Len(cols) THEN over[c] - over[c + 1] ELSE over[c]]

\* line 143: np.sum(n_calls_by_range * (price_table.loc[index] / 1000))
Price(table, index, n) ==
    SumSeq([c \in DOMAIN table.columns |->
               n_calls_by_range(n, table.columns)[c] * table.rows[index][c]])

\* the calls per location and the extra expenses a call is made with
CallCounts == {0, 5000, 200000}
Expenses == {0, 1000000, 0 - 2000000}

\* lines 127-145: prices and total are computed; a Series with another index
\* than the pricing table's is refused
CcCall(n, table, calls, extra, same_index) ==
    /\ cc_pc = "idle"
    /\ n_loc' = n
    /\ cc_price_table' = table
    /\ n_api_calls_per_loc' = calls
    /\ extra_expense' = extra
    /\ LET used == IF table = None THEN DefaultTable ELSE table
       IN  IF ~same_index
           THEN /\ cc_pc' = "raised"
                /\ UNCHANGED <<cc_calls_by_range, prices, total>>
           ELSE /\ cc_pc' = "computed"
                /\ cc_calls_by_range' =
                      [index \in APIs |-> n_calls_by_range(calls[index] * n, used.columns)]
                /\ prices' = [index \in APIs |-> Price(used, index, calls[index] * n)]
                /\ total' = SumOver([index \in APIs |-> Price(used, index, calls[index] * n)],
                                    APIs) + extra
    /\ UNCHANGED <<cc_printed, cc_result, notCc>>

\* lines 147-151: the costs are printed; the function ends without a
\* return statement
CcReturn ==
    /\ cc_pc = "computed"
    /\ cc_pc' = "returned"
    /\ cc_printed' = TRUE
    /\ cc_result' = None
    /\ UNCHANGED <<n_loc, cc_price_table, n_api_calls_per_loc, extra_expense,
                   cc_calls_by_range, prices, total, notCc>>

\* calculate_cost called once with any arguments
NextCost ==
    \/ /\ cc_pc = "idle"
       /\ \E n \in 1..MaxLoc, table \in {None} \cup {Table(t) : t \in 1..MaxTiers},
             calls \in [APIs -> CallCounts], extra \in Expenses, same_index \in BOOLEAN :
             CcCall(n, table, calls, extra, same_index)
    \/ CcReturn

SpecCost == Init /\ [][NextCost]_vars

\* ------------------------------------------- the coverage of find_zoom_level
\* satellite.py 38-39, with the precision of a float kept at every zoom: a
\* value is a mantissa and a binary exponent, the division by 2**zoom moves
\* the exponent only, the other operations round the mantissa.
\* latitudes in degrees, and the horizontal sizes in pixels
Degrees == {15 * n : n \in (0 - 6)..6}
HorizontalSizes == {64, 128}

\* line 38: np.cos(lat * np.pi / 180), in hundredths
Cosine_Reversed(lat) ==
    CASE Abs(lat) = 0 -> 0
      [] Abs(lat) = 15 -> 26
      [] Abs(lat) = 30 -> 50
      [] Abs(lat) = 45 -> 71
      [] Abs(lat) = 60 -> 87
      [] Abs(lat) = 75 -> 97
      [] Abs(lat) = 90 -> 100

Cosine(lat) ==
    CASE Abs(lat) = 0 -> 100
      [] Abs(lat) = 15 -> 97
      [] Abs(lat) = 30 -> 87
      [] Abs(lat) = 45 -> 71
      [] Abs(lat) = 60 -> 50
      [] Abs(lat) = 75 -> 26
      [] Abs(lat) = 90 -> 0

\* line 38: 156543.03392 * np.cos(lat * np.pi / 180) / (2**zoom), in cm
meter_per_pixel(lat, zoom) == Float(156543 * Cosine(lat), zoom)

\* line 39: meter_per_pixel * np.array(horizontal_size) / 1000, in 10 m
CoverageInKm(lat, zoom, horizontal_size) ==
    LET mpp == meter_per_pixel(lat, zoom)
    IN  Float((mpp.m * horizontal_size) \div 1000, mpp.e)

\* a <= b, for floats whose exponents differ by one at most
Leq(a, b) ==
    IF a.e >= b.e THEN a.m <= b.m * 2 ^ (a.e - b.e)
    ELSE a.m * 2 ^ (b.e - a.e) <= b.m

\* lines 37-39: the coverage of the first zoom of the inner loop
CvFirst(lat, zoom, horizontal_size) ==
    /\ cv_pc = "idle"
    /\ cv_pc' = "computed"
    /\ cv_lat' = lat
    /\ cv_zoom' = zoom
    /\ cv_size' = horizontal_size
    /\ cv_km' = CoverageInKm(lat, zoom, horizontal_size)
    /\ UNCHANGED notCv

\* lines 37-39: the next iteration of the inner loop
CvNextZoom ==
    /\ cv_pc = "computed"
    /\ cv_zoom + 1 < ZoomStop
    /\ cv_zoom' = cv_zoom + 1
    /\ cv_km' = CoverageInKm(cv_lat, cv_zoom + 1, cv_size)
    /\ UNCHANGED <<cv_pc, cv_lat, cv_size, notCv>>

\* lines 36-39: the same zoom for another latitude, as far or farther from
\* the equator
CvNextLatitude(lat) ==
    /\ cv_pc = "computed"
    /\ lat # cv_lat
    /\ Abs(lat) \in {Abs(cv_lat), Abs(cv_lat) + 15}
    /\ cv_lat' = lat
    /\ cv_km' = CoverageInKm(lat, cv_zoom, cv_size)
    /\ UNCHANGED <<cv_pc, cv_zoom, cv_size, notCv>>

NextCoverage ==
    \/ /\ cv_pc = "idle"
       /\ \E lat \in Degrees, zoom \in (best_zoom - 1)..(ZoomStop - 1),
             horizontal_size \in HorizontalSizes :
             CvFirst(lat, zoom, horizontal_size)
    \/ CvNextZoom
    \/ \E lat \in Degrees : CvNextLatitude(lat)

SpecCoverage == Init /\ [][NextCoverage]_vars

\* ---------------------------------------------------------------- sign_url
\* A URL is the sequence of its parts and delimiters, a signed URL ends with
\* the signature; a str argument is Scalar(...), a Series is List(...).
Part(s, delimiter) ==
    IF \E n \in 1..(Len(s) - 1) : s[n] = delimiter
    THEN s[(CHOOSE n \in 1..(Len(s) - 1) : s[n] = delimiter) + 1]
    ELSE ""

\* line 43: urlparse.urlparse(input_url)
urlparse(s) ==
    [scheme |-> s[1], netloc |-> s[3], path |-> s[4],
     params |-> Part(s, ";"), query |-> Part(s, "?"), fragment |-> Part(s, "#")]

\* line 46
url_to_sign(url) == <<url.path, "?", url.query>>

\* line 50: base64.urlsafe_b64decode(secret); characters outside the
\* alphabet are discarded, wrong padding raises binascii.Error
BadPadding == "binascii.Error"
urlsafe_b64decode(secret) ==
    CASE secret = "a2V5MQ==" -> "key1"
      [] secret = "a2V5MQ== " -> "key1"
      [] secret = "a2V5Mg==" -> "key2"
      [] OTHER -> BadPadding

\* lines 54-57: the signature is a function of the key and the signed text
encoded_signature(decoded_key, text) == [hmac_sha1 |-> [key |-> decoded_key, msg |-> text]]

\* lines 59-60
original_url_Whole(url) ==
    <<url.scheme, "://", url.netloc, url.path, "?", url.query, "#", url.fragment>>

original_url(url) == <<url.scheme, "://", url.netloc, url.path, "?", url.query>>

\* lines 43-63: one iteration of the for loop
signed_url(input_url, secret) ==
    LET url == urlparse(input_url)
    IN  original_url(url)
          \o <<"&signature=",
               encoded_signature(urlsafe_b64decode(secret), url_to_sign(url))>>

\* line 35
Absent(input_urls, secret) == input_urls = None \/ secret = None

\* lines 35-66
sign_url(input_urls, secret) ==
    IF Absent(input_urls, secret)
    THEN [pc |-> "Exception", signed_urls |-> << >>]
    ELSE IF Len(input_urls.v) > 0 /\ urlsafe_b64decode(secret.v[1]) = BadPadding
    THEN [pc |-> "binascii.Error", signed_urls |-> << >>]
    ELSE [pc |-> "returned",
          signed_urls |-> [n \in 1..Len(input_urls.v) |->
                              signed_url(input_urls.v[n], secret.v[1])]]

\* the URLs and secrets of the calls
Locations == {"location=a", "location=b"}
StreetViewUrl(location) ==
    <<"https", "://", "maps.googleapis.com", "/maps/api/streetview", "?", location>>
Urls == {StreetViewUrl("location=a") \o <<"#", "top">>, StreetViewUrl("location=b")}
Secrets == {None} \cup {Scalar(s) : s \in {"a2V5MQ==", "a2V5MQ== ", "a2V5M"}}
UrlArgs ==
    {None} \cup {Scalar(u) : u \in Urls}
      \cup {List(s) : s \in UNION {[1..n -> Urls] : n \in 0..MaxUrls}}

\* sign_url is called
SuCall(input_urls, secret) ==
    /\ su_calls < MaxCalls
    /\ su_calls' = su_calls + 1
    /\ su_last' = Call(input_urls, secret, sign_url(input_urls, secret))
    /\ su_first' = IF su_calls = 0 THEN su_last' ELSE su_first
    /\ UNCHANGED <<st_pc, st_secret, st_loc_valid, st_urls, st_signed, notSu>>

\* street_view.py 401: if secret is not None
NoSecret_Never(secret) == FALSE

NoSecret(secret) == secret = None

\* street_view.py 376-402: the task builds one URL per valid location and
\* signs them if a secret was given
StUrls(locs, secret) ==
    LET urls == [n \in 1..Len(locs) |-> StreetViewUrl(locs[n])]
        signed == sign_url(List(urls), secret)
    IN  /\ st_secret' = secret
        /\ st_loc_valid' = locs
        /\ IF ~NoSecret(secret)
           THEN /\ st_signed' = TRUE
                /\ st_pc' = IF signed.pc = "returned" THEN "urls" ELSE "raised"
                /\ st_urls' = signed.signed_urls
           ELSE /\ st_signed' = FALSE
                /\ st_pc' = "urls"
                /\ st_urls' = urls
        /\ UNCHANGED <<su_calls, su_first, su_last, notSu>>

\* sign_url called any number of times with any arguments
NextSign ==
    /\ su_calls < MaxCalls
    /\ \E input_urls \in UrlArgs, secret \in Secrets : SuCall(input_urls, secret)

SpecSign == Init /\ [][NextSign]_vars

\* calls of sign_url that lack an argument, and tasks building their URLs
AbsentArgs ==
    {a \in ({None} \cup {Scalar(u) : u \in Urls} \cup {List(<< >>)}) \X Secrets :
        Absent(a[1], a[2])}

NextSignTask ==
    \/ /\ su_calls < MaxCalls
       /\ \E a \in AbsentArgs : SuCall(a[1], a[2])
    \/ \E locs \in UNION {[1..n -> Locations] : n \in 0..MaxUrls},
          secret \in Secrets :
          StUrls(locs, secret)

SpecSignTask == Init /\ [][NextSignTask]_vars

\* ------------------------------------------------------------- get_reviews
\* reviews.py 6-52.  A response is named by the call and the request that
\* brought it.
PlaceIds == {"ChIJa", "ChIJb"}
Response(run, request) == [run |-> run, request |-> request]

\* lines 20-28: the directory is made if it is missing
RvCall(place_id) ==
    /\ rv_pc \in {"idle", "done", "raised"}
    /\ rv_runs < MaxRuns
    /\ rv_runs' = rv_runs + 1
    /\ rv_pc' = "loop"
    /\ rv_place_id' = place_id
    /\ rv_previous' = rv_place_id
    /\ rv_i' = 1
    /\ rv_dir' = TRUE
    /\ rv_requests' = 0
    /\ rv_failures' = 0
    /\ rv_pre' = rv_files
    /\ UNCHANGED <<rv_files, rv_first_response, notRv>>

\* lines 33-36: the file of place_id[i] exists, continue
RvExists ==
    /\ rv_pc = "loop"
    /\ rv_i <= Len(rv_place_id)
    /\ rv_place_id[rv_i] \in DOMAIN rv_files
    /\ rv_i' = rv_i + 1
    /\ UNCHANGED <<rv_pc, rv_runs, rv_place_id, rv_previous, rv_dir, rv_files, rv_requests,
                   rv_failures, rv_pre, rv_first_response, notRv>>

\* lines 38-45: urlopen raises IOError, the while loop goes round
RvUrlopenIOError ==
    /\ rv_pc = "loop"
    /\ rv_i <= Len(rv_place_id)
    /\ rv_place_id[rv_i] \notin DOMAIN rv_files
    /\ rv_failures < MaxIOErrors
    /\ rv_failures' = rv_failures + 1
    /\ rv_requests' = rv_requests + 1
    /\ UNCHANGED <<rv_pc, rv_runs, rv_place_id, rv_previous, rv_i, rv_dir, rv_files, rv_pre,
                   rv_first_response, notRv>>

\* lines 38-46: urlopen returns a response
RvUrlopen ==
    /\ rv_pc = "loop"
    /\ rv_i <= Len(rv_place_id)
    /\ rv_place_id[rv_i] \notin DOMAIN rv_files
    /\ rv_pc' = "read"
    /\ rv_requests' = rv_requests + 1
    /\ rv_first_response' =
          IF rv_place_id[rv_i] \in DOMAIN rv_first_response THEN rv_first_response
          ELSE [p \in (DOMAIN rv_first_response) \cup {rv_place_id[rv_i]} |->
                   IF p = rv_place_id[rv_i] THEN Response(rv_runs, rv_requests + 1)
                   ELSE rv_first_response[p]]
    /\ UNCHANGED <<rv_runs, rv_place_id, rv_previous, rv_i, rv_dir, rv_files, rv_failures,
                   rv_pre, notRv>>

\* line 47: response.read() raises IOError in the else clause, which no
\* handler covers
RvReadIOError ==
    /\ rv_pc = "read"
    /\ rv_failures < MaxIOErrors
    /\ rv_failures' = rv_failures + 1
    /\ rv_pc' = "raised"
    /\ UNCHANGED <<rv_runs, rv_place_id, rv_previous, rv_i, rv_dir, rv_files, rv_requests,
                   rv_pre, rv_first_response, notRv>>

\* lines 47-52: the response is read and saved, break
RvWrite ==
    /\ rv_pc = "read"
    /\ rv_pc' = "loop"
    /\ rv_files' = [p \in (DOMAIN rv_files) \cup {rv_place_id[rv_i]} |->
                       IF p = rv_place_id[rv_i] THEN Response(rv_runs, rv_requests)
                       ELSE rv_files[p]]
    /\ rv_i' = rv_i + 1
    /\ UNCHANGED <<rv_runs, rv_place_id, rv_previous, rv_dir, rv_requests, rv_failures, rv_pre,
                   rv_first_response, notRv>>

\* line 30: the for loop is over
RvReturn ==
    /\ rv_pc = "loop"
    /\ rv_i > Len(rv_place_id)
    /\ rv_pc' = "done"
    /\ UNCHANGED <<rv_runs, rv_place_id, rv_previous, rv_i, rv_dir, rv_files, rv_requests,
                   rv_failures, rv_pre, rv_first_response, notRv>>

\* get_reviews called up to MaxRuns times with lists of up to MaxPlaces
\* place IDs
NextReviews ==
    \/ /\ rv_pc \in {"idle", "done", "raised"}
       /\ \E n \in 0..MaxPlaces : \E place_id \in [1..n -> PlaceIds] : RvCall(place_id)
    \/ RvExists
    \/ RvUrlopenIOError
    \/ RvUrlopen
    \/ RvReadIOError
    \/ RvWrite
    \/ RvReturn

SpecReviews == Init /\ [][NextReviews]_vars

\* A metadata service that reports every second generated candidate
\* available, counting the candidates in generation order across the rounds
\* of a task: the answers to the n candidates of the given round.
EverySecond(round, n) ==
    [c \in 1..n |-> IF ((round - 1) * n + c) % 2 = 0 THEN "OK" ELSE "ZERO_RESULTS"]

GsvRoundEverySecond(i) ==
    GsvRoundWith(i, EverySecond(rounds[i] + 1, n_candidates(n_images)))

\* get_street_view_image called with one ID and n_images = TargetN against
\* that service
NextEverySecond ==
    \/ \E l \in 1..MaxLimit, w \in 1..MaxJobs : StartGsv(1, TargetN, l, w)
    \/ \E i \in Positions : GsvStart(i)
    \/ \E i \in Positions : GsvRoundEverySecond(i)
    \/ \E i \in Positions : GsvChooseName(i)
    \/ \E i \in Positions : GsvImageIOError(i)
    \/ \E i \in Positions : GsvImageWrite(i)
    \/ \E i \in Positions : GsvJournal(i)
    \/ GsvEndRun
    \/ Crash

SpecEverySecond == Init /\ [][NextEverySecond]_vars

\* ------------------------------------------------------------------ claims
DataRows(csv) == Cardinality({n \in 1..Len(csv) : ~csv[n].hdr})

Existing(i) == Cardinality(DOMAIN pre_files[i])

SamplerLeft(i) == pc[i] \in {"name", "request", "journal"}

\* C1: after every generation round the accepted set is the concatenation,
\* in round and acceptance order, of the candidates reported available so
\* far (cut to the requested count once the sampler is left): nothing
\* accepted in an earlier round is dropped or replaced.
C1_AcceptedIsConcatenation ==
    \A i \in Positions :
        (phase = "gsv" /\ rounds[i] >= 1) =>
            IF pc[i] = "sample" THEN loc_valid[i] = accepted[i]
                                ELSE IsPrefix(loc_valid[i], accepted[i])

\* C2: when the sampler is left with deficit N >= 0, every location handed
\* to the fetch step was reported available by the probe, there are at most
\* N of them, and exactly N on the 'enough found' exit.
C2_SamplerOutput ==
    \A i \in Positions :
        (phase = "gsv" /\ SamplerLeft(i) /\ n_needed_images[i] >= 0) =>
            /\ Range(loc_valid[i]) \subseteq okLocs[i]
            /\ Len(loc_valid[i]) <= n_needed_images[i]
            /\ exit[i] = "enough" => Len(loc_valid[i]) = n_needed_images[i]

C2_Witness ==
    \E i \in Positions :
        /\ phase = "gsv" /\ pc[i] = "name" /\ exit[i] = "enough"
        /\ n_existing_images[i] > 0
        /\ n_needed_images[i] >= 1
        /\ Len(loc_valid[i]) = n_needed_images[i]
        /\ Len(accepted[i]) > n_needed_images[i]

C4_CompleteIsNoOp ==
    \A i \in Positions :
        (phase = "gsv" /\ pc[i] \notin {"none", "pending"} /\ Existing(i) = n_images) =>
            /\ pc[i] = "done"
            /\ probed[i] = 0
            /\ requested[i] = 0
            /\ files[i] = pre_files[i]
            /\ loc_csv[i] = pre_csv[i]

C4_Witness ==
    \E i \in Positions :
        /\ phase = "gsv" /\ pc[i] = "done" /\ exit[i] = "complete"
        /\ Existing(i) = n_images

\* C5: the name chosen for an image is image<j>.png for the first j with no
\* file, and a write only ever creates that file: no file that exists is
\* written again.
C5_FirstUnusedNeverOverwrites ==
    [][\A i \in Positions :
          /\ (pc[i] = "name" /\ pc'[i] = "request") =>
                /\ j'[i] \notin DOMAIN files[i]
                /\ \A m \in 0..(j'[i] - 1) : m \in DOMAIN files[i]
          /\ files'[i] # files[i] =>
                /\ pc[i] = "request"
                /\ j[i] \notin DOMAIN files[i]
                /\ \A m \in 0..(j[i] - 1) : m \in DOMAIN files[i]
                /\ DOMAIN files'[i] = DOMAIN files[i] \cup {j[i]}
                /\ \A m \in DOMAIN files[i] : files'[i][m] = files[i][m]
      ]_vars

\* an image has been written into a sub-directory that already held images
C5_Witness ==
    \E i \in Positions :
        /\ phase = "gsv" /\ pc[i] = "journal" /\ k[i] >= 1
        /\ DOMAIN pre_files[i] # {}
        /\ j[i] \in DOMAIN files[i] \ DOMAIN pre_files[i]
        /\ \A m \in DOMAIN pre_files[i] : files[i][m] = pre_files[i][m]

\* C6: in every state, a killed run included, every row of loc.csv names an
\* image file that is present in the sub-directory.
C6_RowsNamePresentFiles ==
    \A i \in Positions :
        \A n \in 1..Len(loc_csv[i]) :
            ~loc_csv[i][n].hdr => loc_csv[i][n].name \in DOMAIN files[i]

\* a killed run left an image that no row names, next to journalled ones
C6_Witness ==
    \E i \in Positions :
        /\ phase = "idle"
        /\ DataRows(loc_csv[i]) >= 1
        /\ \E m \in DOMAIN files[i] :
              \A n \in 1..Len(loc_csv[i]) : loc_csv[i][n].hdr \/ loc_csv[i][n].name # m

\* C7: a journal file is only ever appended to: it never disappears and its
\* content before a step is a prefix of its content after the step.
C7_JournalsAppendOnly ==
    [][/\ \A i \in Positions :
            /\ csv_exists[i] => csv_exists'[i]
            /\ IsPrefix(loc_csv[i], loc_csv'[i])
       /\ coverage_exists => coverage_exists'
       /\ IsPrefix(image_coverage, image_coverage')
      ]_vars

\* a later run has added rows to a loc.csv an earlier run wrote
C7_Witness ==
    \E i \in Positions :
        /\ phase = "gsv" /\ pc[i] = "done"
        /\ DataRows(pre_csv[i]) >= 1
        /\ DataRows(loc_csv[i]) > DataRows(pre_csv[i])

WellHeaded(csv) ==
    /\ Len(csv) >= 1
    /\ csv[1].hdr
    /\ \A n \in 2..Len(csv) : ~csv[n].hdr

\* C8: every journal file that exists has exactly one header row, and it is
\* the first line.
C8_OneHeaderFirst ==
    /\ \A i \in Positions : csv_exists[i] => WellHeaded(loc_csv[i])
    /\ coverage_exists => WellHeaded(image_coverage)

\* rows the running satellite run has added to image_coverage.csv
AppendedCoverage ==
    SelectSeq(SubSeq(image_coverage, Len(pre_coverage) + 1, Len(image_coverage)),
              LAMBDA r : ~r.hdr)

\* C9: for every n_jobs a satellite run appends exactly one row per image it
\* downloaded, pairing the ID with the coverage of its latitude, and none for
\* a skipped ID; the journal step sees every skip a worker decided.
C9_OneRowPerDownload ==
    phase = "journalled" =>
        /\ \A i \in worker_skip : skip_id[i] = 1
        /\ Len(AppendedCoverage) = Cardinality(downloaded)
        /\ Range(AppendedCoverage) = {SatRow(IDs[i], actual_horizontal(i)) : i \in downloaded}

\* C10: with a finite limit and a probe that never reports a candidate
\* available, the sampler stops after a bounded number of rounds by giving
\* up: empty accepted set, shortfall reported, no image requested.
C10_NeverAvailableGivesUp ==
    \A i \in Positions :
        (phase = "gsv" /\ n_needed_images[i] >= 1 /\ okLocs[i] = {}) =>
            /\ rounds[i] <= (2 * limit) \div 3 + 2
            /\ pc[i] # "raised"
            /\ pc[i] # "sample" =>
                  /\ pc[i] = "journal"
                  /\ exit[i] = "shortfall"
                  /\ loc_valid[i] = << >>
                  /\ requested[i] = 0

\* C11: with n_images = 3, no pre-existing image and a service that reports
\* every second generated candidate available, the sampler is left on the
\* 'enough found' branch within 2 rounds with 3 locations.
C11_EverySecondConverges ==
    \A i \in Positions :
        (phase = "gsv" /\ n_images = 3 /\ Existing(i) = 0 /\ rounds[i] >= 1) =>
            /\ rounds[i] <= 2
            /\ pc[i] # "raised"
            /\ rounds[i] = 2 => pc[i] # "sample"
            /\ SamplerLeft(i) => (exit[i] = "enough" /\ Len(loc_valid[i]) = 3)

\* ceil(n * 1.5)
Ceil15(n) == (3 * n + 1) \div 2

\* C12: the first round of a task draws ceil(N * 1.5) candidates, N the
\* deficit n_images - existing; every later round draws 1.5 times the
\* number of points still missing.
C12_DrawsDeficitTimesMultiple ==
    [][\A i \in Positions :
          rounds'[i] = rounds[i] + 1 =>
              LET missing == n_needed_images[i] - Len(loc_valid[i])
              IN  IF rounds[i] = 0
                  THEN drawn'[i] = Ceil15(n_needed_images[i])
                  ELSE drawn'[i] \in {(3 * missing) \div 2, Ceil15(missing)}
      ]_vars

\* C13: in every round the probe is called with limit = the number of valid
\* points still needed, so a round accepts no more candidates than that.
C13_ProbeLimitIsRemainingNeed ==
    [][\A i \in Positions :
          rounds'[i] = rounds[i] + 1 =>
              LET missing == n_needed_images[i] - Len(loc_valid[i])
              IN  /\ probe_limit'[i] = missing
                  /\ Len(accepted'[i]) - Len(accepted[i]) <= missing
      ]_vars

\* C14: the sampler gives up exactly when, after a round, the accepted set
\* is smaller than N and the candidates probed so far exceed N * limit, N
\* the deficit: it does not go on to another round then, and it does not
\* give up before.
C14_GivesUpExactlyOverBudget ==
    \A i \in Positions :
        (phase = "gsv" /\ rounds[i] >= 1 /\ n_needed_images[i] >= 1) =>
            /\ pc[i] = "sample" => probed[i] <= n_needed_images[i] * limit
            /\ (SamplerLeft(i) /\ exit[i] = "shortfall") =>
                  /\ Len(loc_valid[i]) < n_needed_images[i]
                  /\ probed[i] > n_needed_images[i] * limit

\* C15: for one ID in one run, the candidates checked for availability never
\* number more than n_images * limit.
C15_ProbedWithinBudget ==
    \A i \in Positions :
        phase = "gsv" => probed[i] <= n_images * limit

\* entries of av_log in which candidate c was answered with a status
AnswersTo(c) ==
    {n \in 1..Len(av_log) : av_log[n].url = c /\ av_log[n].got \in ProbeStatus}

\* "OK" answers among the first n entries of av_log
OkUpTo(n) == Cardinality({m \in 1..n : av_log[m].got = "OK"})

\* C16: is_gsv_available marks a candidate available exactly when it was
\* answered with status "OK"; any other status marks it not available, the
\* request is not made again and the status makes the call raise nothing.
C16_AvailableIffStatusOK ==
    av_pc # "idle" =>
        /\ \A c \in 1..av_len :
              /\ Cardinality(AnswersTo(c)) <= 1
              /\ availability[c] = (\E n \in AnswersTo(c) : av_log[n].got = "OK")
        /\ (av_log # << >> /\ av_log[Len(av_log)].got \in ProbeStatus) => av_pc # "raised"

\* a call returned after answers OK, ZERO_RESULTS and NOT_FOUND
C16_Witness ==
    /\ av_pc = "returned"
    /\ \E a, b, c \in 1..av_len :
          /\ \E n \in AnswersTo(a) : av_log[n].got = "OK"
          /\ \E n \in AnswersTo(b) : av_log[n].got = "ZERO_RESULTS"
          /\ \E n \in AnswersTo(c) : av_log[n].got = "NOT_FOUND"
          /\ availability[a] /\ ~availability[b] /\ ~availability[c]

\* C17: called with limit L >= 0, is_gsv_available makes no request once L
\* available results have been found, reports no unprobed candidate
\* available and returns at most L available entries.
C17_StopsAtLimit ==
    av_pc # "idle" =>
        /\ \A n \in 1..Len(av_log) : OkUpTo(n - 1) < av_limit
        /\ av_pc \in {"urlopen", "read"} => OkUpTo(Len(av_log)) < av_limit
        /\ \A c \in 1..av_len : availability[c] => AnswersTo(c) # {}
        /\ Cardinality({c \in 1..av_len : availability[c]}) <= av_limit

\* C18: after a transport-level IOError the probe, the street-view image
\* fetch and the satellite image fetch make the same request again; the
\* failure is not surfaced to the caller and nothing is recorded for it.
C18_IOErrorRetried ==
    [][/\ av_pc' # "raised"
       /\ av_failures' # av_failures =>
             /\ av_pc' = "urlopen" /\ av_i' = av_i
             /\ availability' = availability /\ av_count' = av_count
       /\ io_failures' = io_failures + 1 =>
             /\ pc' = pc /\ k' = k /\ j' = j
             /\ loc_valid' = loc_valid /\ new_file_names' = new_file_names
             /\ files' = files /\ sat_files' = sat_files
      ]_vars

\* the ideal coverage lies between the coverages of the first and last zoom
Bracketed(lat, ideal) ==
    /\ CoverageAt(lat, 0) > ideal
    /\ CoverageAt(lat, ZoomStop - 1) <= ideal

\* the first zoom whose coverage is <= ideal
FirstAtMost(lat, ideal) ==
    CHOOSE z \in 0..(ZoomStop - 1) :
        /\ CoverageAt(lat, z) <= ideal
        /\ \A y \in 0..(z - 1) : CoverageAt(lat, y) > ideal

\* squared ratio (>= 1) between the coverage of zoom z and the ideal
SquaredRatio(lat, ideal, z) == 2 * Abs(CoverageAt(lat, z) - ideal)

\* C19: for each latitude whose ideal coverage is bracketed within zoom
\* 0..21, find_zoom_level returns z (the first zoom with coverage <= ideal)
\* or z-1, the one of the two whose squared ratio to the ideal is not the
\* larger, together with the coverage of the zoom it returns; a call whose
\* latitudes are all bracketed does not raise.
C19_CloserOfStraddlingZooms ==
    /\ (\A n \in DOMAIN latitudes : Bracketed(latitudes[n], horizontal_coverage))
          => fz_pc # "raised"
    /\ fz_pc = "returned" =>
          \A n \in DOMAIN latitudes :
              Bracketed(latitudes[n], horizontal_coverage) =>
                  LET lat == latitudes[n]
                      z == FirstAtMost(lat, horizontal_coverage)
                      got == zoom_levels[n]
                      other == IF got = z THEN z - 1 ELSE z
                  IN  /\ got \in {z - 1, z}
                      /\ SquaredRatio(lat, horizontal_coverage, got)
                            <= SquaredRatio(lat, horizontal_coverage, other)
                      /\ actual_horizontal_coverage[n] = Bound(CoverageAt(lat, got))

\* two latitudes of one call, one given the finer and one the coarser of its
\* straddling zooms, neither by a tie
C19_Witness ==
    /\ fz_pc = "returned"
    /\ \E n, m \in DOMAIN latitudes :
          /\ Bracketed(latitudes[n], horizontal_coverage)
          /\ Bracketed(latitudes[m], horizontal_coverage)
          /\ zoom_levels[n] = FirstAtMost(latitudes[n], horizontal_coverage)
          /\ zoom_levels[m] = FirstAtMost(latitudes[m], horizontal_coverage) - 1
          /\ \A x \in {n, m} :
                LET z == FirstAtMost(latitudes[x], horizontal_coverage)
                IN  SquaredRatio(latitudes[x], horizontal_coverage, z)
                      # SquaredRatio(latitudes[x], horizontal_coverage, z - 1)

\* C20: when the two straddling zooms are equally close to the ideal
\* coverage by squared ratio, find_zoom_level returns the coarser one, the
\* smaller zoom number.
C20_TieGoesToCoarser ==
    fz_pc = "returned" =>
        \A n \in DOMAIN latitudes :
            LET lat == latitudes[n]
                z == FirstAtMost(lat, horizontal_coverage)
            IN  (/\ Bracketed(lat, horizontal_coverage)
                 /\ SquaredRatio(lat, horizontal_coverage, z)
                       = SquaredRatio(lat, horizontal_coverage, z - 1)) =>
                    zoom_levels[n] = z - 1

\* C21 as stated: the coverage at the returned zoom Z and the coverage at
\* Z+1 bracket the ideal coverage, one being >= ideal and the other < ideal.
C21_ReturnedAndNextBracket ==
    fz_pc = "returned" =>
        \A n \in DOMAIN latitudes :
            LET lat == latitudes[n]
                Z == zoom_levels[n]
            IN  \/ CoverageAt(lat, Z) >= horizontal_coverage
                     /\ CoverageAt(lat, Z + 1) < horizontal_coverage
                \/ CoverageAt(lat, Z) < horizontal_coverage
                     /\ CoverageAt(lat, Z + 1) >= horizontal_coverage

\* C21 amended: for a latitude whose ideal coverage is bracketed within zoom
\* 0..21, the coverage at the returned zoom Z and the coverage at a
\* neighbouring zoom bracket the ideal coverage: either the coverage at Z is
\* >= ideal and the coverage at Z+1 is < ideal, or the coverage at Z is
\* < ideal and the coverage at Z-1 is > ideal.
C21_ReturnedAndNeighbourBracket ==
    fz_pc = "returned" =>
        \A n \in DOMAIN latitudes :
            Bracketed(latitudes[n], horizontal_coverage) =>
                LET lat == latitudes[n]
                    Z == zoom_levels[n]
                IN  \/ CoverageAt(lat, Z) >= horizontal_coverage
                         /\ CoverageAt(lat, Z + 1) < horizontal_coverage
                    \/ CoverageAt(lat, Z) < horizontal_coverage
                         /\ CoverageAt(lat, Z - 1) > horizontal_coverage

\* one call returns, for one latitude a zoom whose coverage is above the
\* ideal, for another a zoom whose coverage is below it
C21_Witness ==
    /\ fz_pc = "returned"
    /\ \E n, m \in DOMAIN latitudes :
          /\ Bracketed(latitudes[n], horizontal_coverage)
          /\ Bracketed(latitudes[m], horizontal_coverage)
          /\ CoverageAt(latitudes[n], zoom_levels[n]) > horizontal_coverage
          /\ CoverageAt(latitudes[m], zoom_levels[m]) < horizontal_coverage

\* C22: if for some latitude of the call no zoom in 0..21 brackets the
\* ideal coverage, find_zoom_level fails for that call and returns no zoom
\* level and coverage, wherever that latitude sits in the input.
C22_UnbracketedFails ==
    (\E n \in DOMAIN latitudes : ~Bracketed(latitudes[n], horizontal_coverage))
        => fz_pc # "returned"

\* C23: called with IDs and latitude_longitude of different lengths,
\* get_street_view_image and get_satellite_image fail with a validation
\* error before any HTTP request is issued.
C23_MismatchFailsBeforeRequest ==
    /\ mm_requests = 0
    /\ mm_pc = "raised" => mm_error = "ValueError"

\* the lists of the call differ in length, or one of d and tc is a list and
\* the other is not, or loc is a list and d is not
LengthsDiffer ==
    \/ gl_d.list # gl_tc.list
    \/ gl_d.list /\ Len(gl_d.v) # Len(gl_tc.v)
    \/ gl_loc.list /\ (~gl_d.list \/ Len(gl_loc.v) # Len(gl_d.v))

\* the location of the n-th triple of the call
LocOf(n) == IF gl_loc.list THEN gl_loc.v[n] ELSE gl_loc.v[1]

\* C24: get_lat_lon raises a validation error and returns no coordinate when
\* some distance exceeds half the circumference, some bearing lies outside
\* [0, 2*pi] or the lists differ in length; every other call returns exactly
\* one location per (location, distance, bearing) triple, in input order.
C24_RejectsOrOnePerTriple ==
    gl_pc # "idle" =>
        IF \/ LengthsDiffer
           \/ \E n \in DOMAIN gl_d.v : gl_d.v[n] > circumference
           \/ \E n \in DOMAIN gl_tc.v : gl_tc.v[n] < 0 \/ gl_tc.v[n] > TwoPi
        THEN gl_pc = "ValueError" /\ gl_lat_lon = << >>
        ELSE /\ gl_pc = "returned"
             /\ Len(gl_lat_lon) = Len(gl_d.v)
             /\ \A n \in 1..Len(gl_d.v) :
                   gl_lat_lon[n] = Destination(LocOf(n), gl_d.v[n], gl_tc.v[n])

\* the responses of the call that said INVALID_REQUEST
Invalid(log) == {n \in Responses(log) : log[n] = "INVALID_REQUEST"}

\* C25: a next-page call retries an INVALID_REQUEST response at most 3
\* times, sleeps before every attempt, and then returns the last response
\* and its status without raising; a first-page call returns the first
\* response it reads, whatever its status, without any retry.
C25_ThreeRetriesThenReturns ==
    /\ request_count <= 3
    /\ Cardinality(Responses(ns_log)) <= 4
    /\ ns_next_page =>
          \A n \in DOMAIN ns_log :
              (ns_log[n] \in SearchStatus \cup {"IOError", "ReadIOError"})
                  => (n > 1 /\ ns_log[n - 1] = "sleep")
    /\ (ns_next_page /\ Cardinality(Invalid(ns_log)) = 4)
          => (ns_pc = "returned" /\ ns_status = "INVALID_REQUEST")
    /\ (ns_next_page /\ ns_pc \in {"top", "urlopen", "read"} /\ ns_log # << >>)
          => \A n \in Responses(ns_log) : ns_log[n] = "INVALID_REQUEST"
    /\ ns_pc = "returned" =>
          /\ ns_log[Len(ns_log)] = ns_status
          /\ ns_data = Cardinality(Responses(ns_log))
    /\ ns_pc = "raised" => ns_log[Len(ns_log)] = "ReadIOError"
    /\ ~ns_next_page =>
          /\ Cardinality(Responses(ns_log)) <= 1
          /\ \A n \in DOMAIN ns_log : ns_log[n] # "sleep"
          /\ Responses(ns_log) # {} => ns_pc = "returned"

\* a next-page call has given up after its third retry
C25_Witness ==
    /\ ns_next_page
    /\ ns_pc = "returned"
    /\ ns_status = "INVALID_REQUEST"
    /\ request_count = 3
    /\ ns_data = 4

\* C26: when fetching a continuation page fails, get_nearby_places leaves
\* the pagination loop with the pages merged so far (and saves them): the
\* loop is never at its top again after a failed fetch.
C26_FailedPageEndsPagination ==
    np_failed >= 1 => np_pc # "paging"

\* (a, b) has been dealt with by the running or the last call
Processed(a, b) ==
    /\ a <= np_len_IDs
    /\ np_pc = "idle" \/ a < np_i \/ (a = np_i /\ b < np_j)

\* C27: <ID>/<place_type>.json is written exactly when no such file
\* existed and the first-page status is OK or ZERO_RESULTS; an existing file
\* causes no request and is left unchanged; any other status writes no file
\* and the loops go on with the remaining place types and IDs.
C27_WrittenIffNewAndOkOrZero ==
    \A a \in Positions, b \in Types :
        IF ~Processed(a, b)
        THEN np_files[a][b] = np_pre[a][b]
        ELSE IF np_pre[a][b] # NoFile
        THEN np_files[a][b] = np_pre[a][b] /\ np_first[a][b] = "none"
        ELSE /\ np_first[a][b] # "none"
             /\ np_files[a][b] # NoFile <=> np_first[a][b] \in {"OK", "ZERO_RESULTS"}
             /\ np_files[a][b] # NoFile => np_files[a][b].status = np_first[a][b]

\* a second call has skipped the file of the first type without a request,
\* and a type answered with another status, which left no file, has been
\* followed by a type whose empty result was written
C27_Witness ==
    /\ np_runs = 2
    /\ np_pc = "idle"
    /\ np_pre[1][1] # NoFile
    /\ \E a \in Positions, b \in Types :
          /\ Processed(a, b)
          /\ np_pre[a][b] = NoFile
          /\ np_first[a][b] = "OVER_QUERY_LIMIT"
    /\ np_pre[np_len_IDs][NumTypes] = NoFile
    /\ np_files[np_len_IDs][NumTypes].status = "ZERO_RESULTS"

\* C28: a sampling shortfall is not an error: a task that has not found
\* enough locations does not raise; when it gives up it downloads and
\* journals exactly the locations it accepted, and the tasks of the other IDs
\* are still executed.
C28_ShortfallIsPartialResult ==
    \A i \in Positions :
        (phase = "gsv" /\ rounds[i] >= 1) =>
            /\ pc[i] # "raised"
            /\ (exit[i] = "shortfall" /\ pc[i] = "journal") =>
                  /\ loc_valid[i] = accepted[i]
                  /\ requested[i] = Len(accepted[i])
                  /\ Len(new_file_names[i]) = Len(accepted[i])
            /\ exit[i] = "shortfall" =>
                  \A m \in 1..len_IDs : pc[m] # "none"

\* C29: for any n_jobs and pairwise distinct IDs, each task is executed
\* exactly once in the run, and no image file or journal file is written by
\* two tasks: every file written belongs to one task only.
C29_TasksWriteDisjointFiles ==
    /\ \A i \in DOMAIN tk_IDs :
          /\ tk_started[i] <= 1
          /\ tk_pc[i] # "pending" => tk_started[i] = 1
    /\ \A a, b \in tk_written :
          (a.dir = b.dir /\ a.file = b.file) => a.task = b.task

\* the pricing table a call uses
UsedTable == IF cc_price_table = None THEN DefaultTable ELSE cc_price_table

Min(a, b) == IF a < b THEN a ELSE b

\* the calls, out of n, that lie between threshold c and the next one, or
\* above the last threshold
CallsInTier(n, cols, c) ==
    IF c < Len(cols) THEN Min(n, cols[c + 1]) - Min(n, cols[c])
    ELSE Max(n - cols[c], 0)

\* the cost of n calls of an API: the calls of every tier at that tier's
\* price
TieredCost(a, n) ==
    SumSeq([c \in DOMAIN UsedTable.columns |->
               CallsInTier(n, UsedTable.columns, c) * UsedTable.rows[a][c]])

\* C30: calculate_cost returns a result indexed by 'total' and by each API
\* name: the 'total' entry is the sum of the per-API tiered costs plus
\* extra_expense and each API entry is that API's tiered cost.
C30_ReturnsCosts ==
    cc_pc = "returned" =>
        /\ ~cc_result.none
        /\ DOMAIN cc_result.cost = APIs \cup {"total"}
        /\ \A a \in APIs :
              cc_result.cost[a] = TieredCost(a, n_api_calls_per_loc[a] * n_loc)
        /\ cc_result.cost["total"] =
              SumOver([a \in APIs |-> TieredCost(a, n_api_calls_per_loc[a] * n_loc)], APIs)
                + extra_expense

C32_AbsentRaisesNoneSkipsSigning ==
    /\ \A c \in {su_first, su_last} :
          (c.out.pc # "none" /\ (c.input_urls = None \/ c.secret = None)) =>
              c.out.pc = "Exception" /\ c.out.signed_urls = << >>
    /\ (st_pc # "idle" /\ st_secret = None) =>
          /\ st_pc = "urls"
          /\ ~st_signed
          /\ st_urls = [n \in 1..Len(st_loc_valid) |-> StreetViewUrl(st_loc_valid[n])]

\* a call without a secret has raised, and a task without a secret has
\* built two URLs
C32_Witness ==
    /\ su_last.out.pc = "Exception"
    /\ su_last.input_urls # None
    /\ su_last.secret = None
    /\ st_pc = "urls"
    /\ st_secret = None
    /\ Len(st_urls) = 2

\* C33: for a fixed latitude and pixel width the coverage halves with each
\* zoom step and so does not increase with the zoom; for a fixed zoom and
\* pixel width it does not increase as |latitude| grows toward 90 degrees.
C33_CoverageNonIncreasing ==
    [][(cv_pc = "computed" /\ cv_pc' = "computed") =>
        /\ cv_zoom' = cv_zoom + 1 =>
              /\ cv_km'.m = cv_km.m /\ cv_km'.e = cv_km.e + 1
              /\ Leq(cv_km', cv_km)
        /\ (cv_zoom' = cv_zoom /\ Abs(cv_lat') >= Abs(cv_lat)) => Leq(cv_km', cv_km)]_vars

\* the coverage at 60 degrees north and zoom 5 is below that at the equator
\* and zoom 4
C33_Witness ==
    /\ cv_pc = "computed"
    /\ cv_lat = 60
    /\ cv_zoom = 5
    /\ cv_km.m > 0
    /\ ~Leq(CoverageInKm(0, 4, cv_size), cv_km)

\* C34: a street-view task that finds at least n_images images in its
\* sub-directory sends no metadata and no image request and writes no image,
\* and a run leaves no directory with more images than the larger of n_images
\* and the number it held before.
C34_EnoughImagesIsNoOp ==
    phase = "gsv" =>
        \A i \in 1..len_IDs :
            LET before == Cardinality(DOMAIN pre_files[i])
                now == Cardinality(DOMAIN files[i])
            IN  /\ before >= n_images =>
                      /\ probed[i] = 0
                      /\ requested[i] = 0
                      /\ files[i] = pre_files[i]
                /\ now <= (IF before > n_images THEN before ELSE n_images)

\* what find_zoom_level gives for the one-element input [lat]: the locals
\* are unbound when its only latitude is processed
Alone(lat, ideal) ==
    LET loc == ZoomLoop(lat, ideal, best_zoom - 1,
                        [zoom |-> Unbound, cov |-> Unbound, ratio |-> Unbound,
                         prev_ratio |-> Unbound, prev_cov |-> Unbound])
    IN  IF ~loc.ratio.bound \/ ~loc.prev_ratio.bound
        THEN [raised |-> TRUE, zoom |-> 0, coverage |-> Unbound]
        ELSE IF CloserIsFiner(loc.ratio.val, loc.prev_ratio.val)
        THEN [raised |-> FALSE, zoom |-> loc.zoom.val, coverage |-> loc.cov]
        ELSE [raised |-> FALSE, zoom |-> PreviousZoom(loc.zoom.val), coverage |-> loc.prev_cov]

\* C35: the zoom level and the coverage find_zoom_level returns at a
\* position are those it returns for that position's latitude alone (with
\* the same ideal coverage and pixel width), whatever other latitudes the
\* input holds and in whatever order.
C35_ResultOfLatitudeAlone ==
    fz_pc = "returned" =>
        \A n \in DOMAIN latitudes :
            LET alone == Alone(latitudes[n], horizontal_coverage)
            IN  /\ ~alone.raised
                /\ zoom_levels[n] = alone.zoom
                /\ actual_horizontal_coverage[n] = alone.coverage

\* C36: for each API the calls (n_api_calls_per_loc x n_loc) are split over
\* the price tiers, the calls between threshold i and threshold i+1 priced
\* at tier i's price and the calls above the last threshold at the last
\* tier's; the calls per tier are non-negative and add up to the API's
\* calls, whatever the number of tiers; and a call whose n_api_calls_per_loc
\* and price_table have different index sets raises ValueError with no cost
\* computed or printed.
C36_TiersSplitCalls ==
    /\ cc_pc \in {"computed", "returned"} =>
          \A a \in APIs :
              LET n == n_api_calls_per_loc[a] * n_loc
                  cols == UsedTable.columns
                  split == cc_calls_by_range[a]
              IN  /\ Len(split) = Len(cols)
                  /\ \A c \in DOMAIN cols :
                        split[c] >= 0 /\ split[c] = CallsInTier(n, cols, c)
                  /\ SumSeq(split) = n
                  /\ prices[a] = SumSeq([c \in DOMAIN cols |-> split[c] * UsedTable.rows[a][c]])
    /\ cc_pc = "raised" =>
          /\ cc_calls_by_range = [a \in {} |-> << >>]
          /\ prices = [a \in {} |-> 0]
          /\ total = 0
          /\ ~cc_printed

\* a table of three tiers, and an API whose calls reach all three
C36_Witness ==
    /\ cc_pc = "computed"
    /\ Len(UsedTable.columns) = 3
    /\ \E a \in APIs : \A c \in 1..3 : cc_calls_by_range[a][c] > 0

\* C37: get_reviews saves, for every requested place ID that had no file,
\* one file holding the first response the service returned for it, and a
\* call whose place IDs were all requested by the call before it sends no
\* request and changes no file.
C37_ReviewsIdempotent ==
    /\ rv_pc \in {"done", "raised"} =>
          \A n \in DOMAIN rv_place_id :
              /\ rv_place_id[n] \in DOMAIN rv_files
              /\ rv_files[rv_place_id[n]] = rv_first_response[rv_place_id[n]]
    /\ \A p \in DOMAIN rv_pre : p \in DOMAIN rv_files /\ rv_files[p] = rv_pre[p]
    /\ (rv_runs >= 2 /\ rv_place_id = rv_previous) =>
          rv_requests = 0 /\ rv_files = rv_pre

====
